---- MODULE Spec2Model ----
(***************************************************************************)
(* Verification model of the heap-based structures of the DSA_Book corpus: *)
(*   - Heap                 (src/heap/heap_implementation.cc)              *)
(*   - TopSongs, fixed size (src/dynamic_arrays/dynamic_arrays1.cc)        *)
(*   - TopSongs, updatable  (src/heap/top_songs_class_with_updates.cc)     *)
(* C++ vectors are 0-indexed; sequences here are 1-indexed, so At(a, i)    *)
(* reads element i of the C++ vector a.                                    *)
(***************************************************************************)
EXTENDS Integers, Sequences, FiniteSets

VARIABLES
  arr_,        \* Heap::arr_
  priority_,   \* Heap::priority_
  h_op,        \* the last Heap member function called ("ctor" after construction)
  h_ret,       \* what that call returned (0 for a void function)
  h_prev,      \* arr_ before that call (the constructor's argument after "ctor")
  h_n,         \* number of push calls so far (counted in SpecHeapSize only)
  h_m,         \* number of pop calls so far (counted in SpecHeapSize only)
  h_emptyPop,  \* whether some pop was issued on an empty heap (SpecHeapSize only)
  f_k_,        \* fixed-capacity TopSongs::k_
  f_pq,        \* fixed-capacity TopSongs::pq (min-heap of <<plays, title>>)
  f_regs,      \* every <<plays, title>> registered so far, sorted ascending
  f_op,        \* the last fixed-capacity TopSongs member function called
  f_ret,       \* the titles the last top_k() returned
  u_k_,        \* updatable TopSongs::k_
  u_pq,        \* updatable TopSongs::pq (max-heap of <<plays, title>>)
  umap,        \* updatable TopSongs::umap
  u_sum,       \* per title, the sum of all counts registered for it
  u_seen,      \* the titles registered so far
  u_regs,      \* number of register_plays calls so far
  u_op,        \* the last updatable TopSongs member function called
  u_ret,       \* the titles the last top_k() returned
  p_umap,      \* PopularSongs::umap
  max_pq,      \* PopularSongs::max_pq (max-heap of play counts, the lower half)
  min_pq,      \* PopularSongs::min_pq (min-heap of play counts, the upper half)
  p_counts,    \* every play count registered so far, sorted ascending
  p_op,        \* the last PopularSongs member function called
  p_title,     \* the title passed to that call
  p_ret,       \* what the last is_popular() returned
  genres,      \* most_listened_across_genres: the argument genres
  m_k,         \* most_listened_across_genres: the argument k
  m_pq,        \* most_listened_across_genres: pq
  index_vec,   \* most_listened_across_genres: index_vec
  m_res,       \* most_listened_across_genres: res
  m_i,         \* most_listened_across_genres: i of the initialization loop
  m_pc,        \* most_listened_across_genres: where the call stands
  m_oob,       \* whether the call has read a vector past its end
  inputs,      \* top_k (flat version): the argument inputs
  t_k,         \* top_k (flat version): the argument k
  t_pq,        \* top_k (flat version): pq (min-heap of <<plays, title>>)
  t_title,     \* top_k (flat version): title, the vector returned
  t_i,         \* top_k (flat version): position of vec in inputs
  t_j,         \* top_k (flat version): position of p in vec
  t_pc,        \* top_k (flat version): where the call stands
  primes,      \* sum_first_k: the argument primes
  s_k,         \* sum_first_k: the argument k
  s_pq,        \* sum_first_k: pq (min-heap of <<power, base>>)
  sum_primes,  \* sum_first_k: sum_primes
  counter,     \* sum_first_k: counter
  s_i,         \* sum_first_k: position of x in primes
  s_pc,        \* sum_first_k: where the call stands
  s_ovf,       \* whether power * base has left the range of long long
  s_ret,       \* sum_first_k: the value returned (0 before the return)
  hs_arr,      \* heap_sort Heap::arr_
  hs_op,       \* the last heap_sort Heap member function called
  hs_prev,     \* hs_arr before that call (the constructor's argument after "ctor")
  hs_sorts,    \* number of sort calls so far
  cap_,        \* DynamicArray::cap_
  d_arr,       \* DynamicArray::arr_, the cap_ cells of the allocated block
  size_,       \* DynamicArray::size_
  d_abs,       \* the integer sequence the array stands for
  d_retOk,     \* whether the last call returned what the sequence d_abs gives
  d_prevCap,   \* cap_ before that call
  d_limit,     \* the number of elements the caller keeps at most
  window_,     \* ViewerCounter::window_
  category,    \* ViewerCounter::category (type -> queue of timestamps, the front first)
  v_joined,    \* per type, every timestamp joined so far
  v_op,        \* the last ViewerCounter member function called
  v_time,      \* the time passed to that call
  v_type,      \* the type passed to that call
  v_ret,       \* what the last get_viewers returned
  st,          \* current_url_forward: st, the history stack (the top last)
  st2,         \* current_url_forward: st2, the forward stack (the top last)
  b_pages,     \* the reference browser: the list of pages
  b_cursor,    \* the reference browser: the index of the current page in b_pages
  b_n,         \* number of actions performed so far
  b_last,      \* the type of the last action performed
  b_pc,        \* current_url_forward: where the call stands
  b_ret        \* current_url_forward: the URL returned (0 before the return)

heapVars == <<arr_, priority_, h_op, h_ret, h_prev>>
sizeVars == <<h_n, h_m, h_emptyPop>>
fixedVars == <<f_k_, f_pq, f_regs, f_op, f_ret>>
updVars == <<u_k_, u_pq, umap, u_sum, u_seen, u_regs, u_op, u_ret>>
popVars == <<p_umap, max_pq, min_pq, p_counts, p_op, p_title, p_ret>>
mergeVars == <<genres, m_k, m_pq, index_vec, m_res, m_i, m_pc, m_oob>>
flatVars == <<inputs, t_k, t_pq, t_title, t_i, t_j, t_pc>>
primeVars == <<primes, s_k, s_pq, sum_primes, counter, s_i, s_pc, s_ovf, s_ret>>
sortVars == <<hs_arr, hs_op, hs_prev, hs_sorts>>
dynVars == <<cap_, d_arr, size_, d_abs, d_retOk, d_prevCap, d_limit>>
viewVars == <<window_, category, v_joined, v_op, v_time, v_type, v_ret>>
urlVars == <<st, st2, b_pages, b_cursor, b_n, b_last, b_pc, b_ret>>
oldVars == <<heapVars, sizeVars, fixedVars, updVars, popVars, mergeVars>>
restVars == <<flatVars, primeVars, sortVars, dynVars, viewVars, urlVars>>
vars == <<oldVars, restVars>>

(***************************************************************************)
(* Bounds of the model.                                                    *)
(***************************************************************************)
MaxElem == 2      \* heap elements are drawn from Empty..MaxElem
MaxInit == 5      \* longest array handed to the Heap constructor
MaxSize == 6      \* pushes are issued while the heap holds fewer elements
MaxOps == 8       \* push/pop calls counted in SpecHeapSize
MaxK == 3         \* TopSongs is constructed with k in 1..MaxK
MaxTitle == 3     \* song titles are 1..MaxTitle, in the order of their strings
MaxPlays == 2     \* a register_plays call passes a count in 1..MaxPlays
MaxRegs == 4      \* register_plays calls issued on one TopSongs object
MaxPopTitle == 4  \* PopularSongs titles are 1..MaxPopTitle
MaxPopPlays == 4  \* PopularSongs play counts are 1..MaxPopPlays
MaxGenres == 2    \* most_listened_across_genres is given 1..MaxGenres lists
MaxListLen == 2   \* each genre list holds at most MaxListLen songs
MaxPrimes == 2    \* sum_first_k is given 1..MaxPrimes primes
MaxSumK == 4      \* sum_first_k is called with k in -1..MaxSumK
MaxSortInit == 3  \* longest array handed to the heap_sort Heap constructor
MaxSortSize == 4  \* heap_sort Heap: pushes are issued below this size
MaxSorts == 2     \* sort calls issued on one heap_sort Heap
MaxDynSize == 10  \* a default-constructed DynamicArray is given at most so many elements
MaxCapSize == 3   \* a DynamicArray of a chosen capacity is given at most so many elements
MaxCap == 12      \* DynamicArray is constructed with a capacity in 1..MaxCap
MaxWindow == 2    \* ViewerCounter is constructed with a window in 1..MaxWindow
MaxTime == 3      \* join and get_viewers are called with times in 0..MaxTime
MaxTypes == 2     \* viewer types are 1..MaxTypes
MaxJoins == 3     \* join calls issued on one ViewerCounter
MaxActions == 5   \* current_url_forward is given at most MaxActions actions
MaxUrl == 2       \* URLs are 1..MaxUrl
MaxSteps == 11    \* back and forward are given a number in 1..MaxSteps

\* The value top() and pop() return on an empty heap.
Empty == -1

Elems == Empty..MaxElem

(***************************************************************************)
(* Helpers on sequences.                                                   *)
(***************************************************************************)
At(a, i) == a[i + 1]

Swap(a, i, j) == [a EXCEPT ![i + 1] = a[j + 1], ![j + 1] = a[i + 1]]

PopBack(a) == SubSeq(a, 1, Len(a) - 1)

Count(s, v) == Cardinality({i \in DOMAIN s : s[i] = v})

Range(s) == {s[i] : i \in DOMAIN s}

SameBag(s, t) == \A v \in Range(s) \cup Range(t) : Count(s, v) = Count(t, v)

Min2(a, b) == IF a < b THEN a ELSE b

\* All sequences over S of length at most n.
SeqsUpTo(S, n) == UNION {[1..m -> S] : m \in 0..n}

\* C++ integer division, truncating toward zero.
CDiv(a, b) == IF a >= 0 THEN a \div b ELSE -((-a) \div b)

(***************************************************************************)
(* Heap (src/heap/heap_implementation.cc).                                 *)
(***************************************************************************)
\* Mutant of parent: the 1-indexed formula index/2 used on a 0-indexed array.
parentOneIndexed(index) == CDiv(index, 2)

parent(index) == CDiv(index - 1, 2)

\* Mutant of minheapify: swaps with the smaller child but does not continue
\* into the affected subtree.
minheapifyOneLevel(a, index) ==
  LET n == Len(a)
      left == 2 * index + 1
      right == 2 * index + 2
      s1 == IF left < n /\ At(a, index) > At(a, left) THEN left ELSE index
      smallest == IF right < n /\ At(a, s1) > At(a, right) THEN right ELSE s1
  IN IF smallest = index THEN a ELSE Swap(a, smallest, index)

RECURSIVE minheapify(_, _)
minheapify(a, index) ==
  LET n == Len(a)
      left == 2 * index + 1
      right == 2 * index + 2
      s1 == IF left < n /\ At(a, index) > At(a, left) THEN left ELSE index
      smallest == IF right < n /\ At(a, s1) > At(a, right) THEN right ELSE s1
  IN IF smallest = index THEN a
     ELSE minheapify(Swap(a, smallest, index), smallest)

RECURSIVE maxheapify(_, _)
maxheapify(a, index) ==
  LET n == Len(a)
      left == 2 * index + 1
      right == 2 * index + 2
      l1 == IF left < n /\ At(a, index) < At(a, left) THEN left ELSE index
      largest == IF right < n /\ At(a, l1) < At(a, right) THEN right ELSE l1
  IN IF largest = index THEN a
     ELSE maxheapify(Swap(a, largest, index), largest)

\* The constructor's loop: for(i = n/2-1; i >= 0; --i) heapify(i).
RECURSIVE BuildLoop(_, _, _)
BuildLoop(a, priority, i) ==
  IF i < 0 THEN a
  ELSE BuildLoop(IF priority = "<" THEN minheapify(a, i) ELSE maxheapify(a, i),
                 priority, i - 1)

\* Mutant of HeapCtor: the loop starts one node too late (n/2 - 2).
HeapCtorStartsLate(priority, arr) ==
  IF priority = "<" \/ priority = ">"
  THEN BuildLoop(arr, priority, CDiv(Len(arr), 2) - 2)
  ELSE arr

HeapCtor(priority, arr) ==
  IF priority = "<" \/ priority = ">"
  THEN BuildLoop(arr, priority, CDiv(Len(arr), 2) - 1)
  ELSE arr

size(a) == Len(a)

top(a) == IF Len(a) = 0 THEN Empty ELSE At(a, 0)

\* The while loops of push: bubble the element at index up.
RECURSIVE BubbleUpMin(_, _)
BubbleUpMin(a, index) ==
  IF index /= 0 /\ At(a, parent(index)) > At(a, index)
  THEN BubbleUpMin(Swap(a, parent(index), index), parent(index))
  ELSE a

RECURSIVE BubbleUpMax(_, _)
BubbleUpMax(a, index) ==
  IF index /= 0 /\ At(a, parent(index)) < At(a, index)
  THEN BubbleUpMax(Swap(a, parent(index), index), parent(index))
  ELSE a

push(a, priority, elem) ==
  LET b == Append(a, elem)
      index == Len(b) - 1
  IN IF priority = "<" THEN BubbleUpMin(b, index)
     ELSE IF priority = ">" THEN BubbleUpMax(b, index)
     ELSE b

\* Mutant of popArr: moves the last element to the root without pop_back().
popArrKeepsLast(a, priority) ==
  LET n == Len(a)
  IN IF n = 0 THEN a
     ELSE LET b == [a EXCEPT ![1] = At(a, n - 1)]
          IN IF priority = "<" THEN minheapify(b, 0) ELSE maxheapify(b, 0)

\* The array pop() leaves behind.
popArr(a, priority) ==
  LET n == Len(a)
  IN IF n = 0 THEN a
     ELSE LET b == PopBack([a EXCEPT ![1] = At(a, n - 1)])
          IN IF priority = "<" THEN minheapify(b, 0) ELSE maxheapify(b, 0)

\* Mutant of popRet: another value for the empty heap.
popRetZeroOnEmpty(a) == IF Len(a) = 0 THEN 0 ELSE At(a, 0)

\* The value pop() returns.
popRet(a) == IF Len(a) = 0 THEN Empty ELSE At(a, 0)

HeapInit ==
  /\ priority_ \in {"<", ">"}
  /\ \E arr \in SeqsUpTo(Elems, MaxInit) :
       /\ h_prev = arr
       /\ arr_ = HeapCtor(priority_, arr)
  /\ h_op = "ctor"
  /\ h_ret = 0

HeapPush(elem) ==
  /\ Len(arr_) < MaxSize
  /\ arr_' = push(arr_, priority_, elem)
  /\ h_op' = "push"
  /\ h_ret' = 0
  /\ h_prev' = arr_
  /\ UNCHANGED priority_

HeapPop ==
  /\ arr_' = popArr(arr_, priority_)
  /\ h_op' = "pop"
  /\ h_ret' = popRet(arr_)
  /\ h_prev' = arr_
  /\ UNCHANGED priority_

HeapTop ==
  /\ h_op' = "top"
  /\ h_ret' = top(arr_)
  /\ h_prev' = arr_
  /\ UNCHANGED <<arr_, priority_>>

HeapSize ==
  /\ h_op' = "size"
  /\ h_ret' = size(arr_)
  /\ h_prev' = arr_
  /\ UNCHANGED <<arr_, priority_>>

\* The state of a structure while another structure's specification runs.
HeapIdle ==
  /\ arr_ = <<>>
  /\ priority_ = "<"
  /\ h_op = "ctor"
  /\ h_ret = 0
  /\ h_prev = <<>>

SizeIdle ==
  /\ h_n = 0
  /\ h_m = 0
  /\ h_emptyPop = FALSE

FixedIdle ==
  /\ f_k_ = 1
  /\ f_pq = <<>>
  /\ f_regs = <<>>
  /\ f_op = "ctor"
  /\ f_ret = <<>>

UpdIdle ==
  /\ u_k_ = 1
  /\ u_pq = <<>>
  /\ umap = <<>>
  /\ u_sum = <<>>
  /\ u_seen = {}
  /\ u_regs = 0
  /\ u_op = "ctor"
  /\ u_ret = <<>>

PopIdle ==
  /\ p_umap = <<>>
  /\ max_pq = <<>>
  /\ min_pq = <<>>
  /\ p_counts = <<>>
  /\ p_op = "ctor"
  /\ p_title = 0
  /\ p_ret = FALSE

MergeIdle ==
  /\ genres = <<>>
  /\ m_k = 1
  /\ m_pq = <<>>
  /\ index_vec = <<>>
  /\ m_res = <<>>
  /\ m_i = 0
  /\ m_pc = "idle"
  /\ m_oob = FALSE

FlatIdle ==
  /\ inputs = <<>>
  /\ t_k = 1
  /\ t_pq = <<>>
  /\ t_title = <<>>
  /\ t_i = 0
  /\ t_j = 0
  /\ t_pc = "idle"

SumIdle ==
  /\ primes = <<>>
  /\ s_k = 0
  /\ s_pq = <<>>
  /\ sum_primes = 0
  /\ counter = 0
  /\ s_i = 0
  /\ s_pc = "idle"
  /\ s_ovf = FALSE
  /\ s_ret = 0

HsIdle ==
  /\ hs_arr = <<>>
  /\ hs_op = "idle"
  /\ hs_prev = <<>>
  /\ hs_sorts = 0

DynIdle ==
  /\ cap_ = 0
  /\ d_arr = <<>>
  /\ size_ = 0
  /\ d_abs = <<>>
  /\ d_retOk = TRUE
  /\ d_prevCap = 0
  /\ d_limit = 0

ViewIdle ==
  /\ window_ = 1
  /\ category = <<>>
  /\ v_joined = <<>>
  /\ v_op = "idle"
  /\ v_time = 0
  /\ v_type = 0
  /\ v_ret = 0

UrlIdle ==
  /\ st = <<>>
  /\ st2 = <<>>
  /\ b_pages = <<>>
  /\ b_cursor = 0
  /\ b_n = 0
  /\ b_last = "none"
  /\ b_pc = "idle"
  /\ b_ret = 0

\* The programs modelled further down, none of them running.
RestIdle == FlatIdle /\ SumIdle /\ HsIdle /\ DynIdle /\ ViewIdle /\ UrlIdle

\* The programs modelled above the flat top_k, none of them running.
OldIdle == HeapIdle /\ SizeIdle /\ FixedIdle /\ UpdIdle /\ PopIdle /\ MergeIdle

HeapNext ==
  \/ \E elem \in Elems : HeapPush(elem) /\ UNCHANGED <<sizeVars, fixedVars, updVars, popVars, mergeVars, restVars>>
  \/ HeapPop /\ UNCHANGED <<sizeVars, fixedVars, updVars, popVars, mergeVars, restVars>>
  \/ HeapTop /\ UNCHANGED <<sizeVars, fixedVars, updVars, popVars, mergeVars, restVars>>
  \/ HeapSize /\ UNCHANGED <<sizeVars, fixedVars, updVars, popVars, mergeVars, restVars>>

SpecHeapInit == HeapInit /\ SizeIdle /\ FixedIdle /\ UpdIdle /\ PopIdle /\ MergeIdle /\ RestIdle

SpecHeap == SpecHeapInit /\ [][HeapNext]_vars

(***************************************************************************)
(* SpecHeapSize: an initially empty Heap with its push and pop calls       *)
(* counted.                                                                *)
(***************************************************************************)
SizeInit ==
  /\ priority_ \in {"<", ">"}
  /\ h_prev = <<>>
  /\ arr_ = HeapCtor(priority_, <<>>)
  /\ h_op = "ctor"
  /\ h_ret = 0
  /\ h_n = 0
  /\ h_m = 0
  /\ h_emptyPop = FALSE

CountedPush(elem) ==
  /\ h_n + h_m < MaxOps
  /\ HeapPush(elem)
  /\ h_n' = h_n + 1
  /\ UNCHANGED <<h_m, h_emptyPop>>

CountedPop ==
  /\ h_n + h_m < MaxOps
  /\ HeapPop
  /\ h_m' = h_m + 1
  /\ h_emptyPop' = (h_emptyPop \/ Len(arr_) = 0)
  /\ UNCHANGED h_n

SizeNext ==
  \/ \E elem \in Elems : CountedPush(elem) /\ UNCHANGED <<fixedVars, updVars, popVars, mergeVars, restVars>>
  \/ CountedPop /\ UNCHANGED <<fixedVars, updVars, popVars, mergeVars, restVars>>
  \/ HeapTop /\ UNCHANGED <<sizeVars, fixedVars, updVars, popVars, mergeVars, restVars>>
  \/ HeapSize /\ UNCHANGED <<sizeVars, fixedVars, updVars, popVars, mergeVars, restVars>>

SpecHeapSizeInit == SizeInit /\ FixedIdle /\ UpdIdle /\ PopIdle /\ MergeIdle /\ RestIdle

SpecHeapSize == SpecHeapSizeInit /\ [][SizeNext]_vars

(***************************************************************************)
(* Reference definitions used to state the Heap claims.                    *)
(***************************************************************************)
\* x has priority no lower than y under the ordering p.
NoLower(p, x, y) == IF p = "<" THEN x <= y ELSE x >= y

\* The values repeated pop() calls return until the heap is empty.
RECURSIVE Drain(_, _)
Drain(a, p) ==
  IF Len(a) = 0 THEN <<>> ELSE <<popRet(a)>> \o Drain(popArr(a, p), p)

InPriorityOrder(s, p) == \A i \in 1..(Len(s) - 1) : NoLower(p, s[i], s[i + 1])

\* Insertion of x into a sequence already in priority order.
RECURSIVE InsertInOrder(_, _, _)
InsertInOrder(s, x, p) ==
  IF Len(s) = 0 THEN <<x>>
  ELSE IF NoLower(p, x, Head(s)) THEN <<x>> \o s
  ELSE <<Head(s)>> \o InsertInOrder(Tail(s), x, p)

\* s sorted by descending priority (insertion sort).
RECURSIVE SortByPriority(_, _)
SortByPriority(s, p) ==
  IF Len(s) = 0 THEN <<>>
  ELSE InsertInOrder(SortByPriority(Tail(s), p), Head(s), p)

(***************************************************************************)
(* Claims about Heap.                                                      *)
(***************************************************************************)
\* C1: in every state reachable from construction by push and pop, every
\* non-root index i has arr_[(i-1)/2] <= arr_[i] for "<" and >= for ">".
C1_HeapOrder ==
  \A i \in 1..(Len(arr_) - 1) :
    NoLower(priority_, At(arr_, (i - 1) \div 2), At(arr_, i))

C1_Witness ==
  /\ h_op = "pop"
  /\ Len(arr_) >= 4
  /\ Cardinality(Range(arr_)) >= 3
  /\ arr_ /= PopBack([h_prev EXCEPT ![1] = h_prev[Len(h_prev)]])

\* C2: pop() on a non-empty heap returns an element whose priority is highest
\* among the stored elements and removes exactly one occurrence of it; the
\* values repeated pops return from any reachable state are in non-increasing
\* priority order.
C2_PopHighest ==
  /\ (h_op = "pop" /\ Len(h_prev) > 0) =>
       /\ \A v \in Range(h_prev) : NoLower(priority_, h_ret, v)
       /\ SameBag(Append(arr_, h_ret), h_prev)
  /\ InPriorityOrder(Drain(arr_, priority_), priority_)
  /\ SameBag(Drain(arr_, priority_), arr_)

C2_Witness ==
  /\ h_op = "pop"
  /\ Len(h_prev) = MaxSize
  /\ Cardinality(Range(h_prev)) >= 3
  /\ Count(h_prev, h_ret) >= 2

\* C3: the constructor stores the multiset of its argument in heap order, and
\* draining the constructed heap returns the argument sorted by descending
\* priority (ascending values for "<", descending values for ">").
C3_BuildSorts ==
  h_op = "ctor" =>
    /\ SameBag(arr_, h_prev)
    /\ \A i \in 1..(Len(arr_) - 1) :
         IF priority_ = "<" THEN At(arr_, (i - 1) \div 2) <= At(arr_, i)
         ELSE At(arr_, (i - 1) \div 2) >= At(arr_, i)
    /\ Drain(arr_, priority_) = SortByPriority(h_prev, priority_)

C3_Witness ==
  /\ h_op = "ctor"
  /\ priority_ = "<"
  /\ h_prev = <<1, 2, 0, 1>>
  /\ arr_ /= h_prev
  /\ Drain(arr_, priority_) = <<0, 1, 1, 2>>

\* C4: on an initially empty heap on which no pop was issued while it was
\* empty, size() is the number of pushes minus the number of pops; top()
\* never changes size().
C4_SizeCount ==
  /\ ~h_emptyPop => size(arr_) = h_n - h_m
  /\ h_op = "top" => size(arr_) = size(h_prev)

C4_Witness ==
  /\ ~h_emptyPop
  /\ h_n = 4
  /\ h_m = 2
  /\ h_op = "top"
  /\ size(arr_) = 2

\* C5: top() and pop() on a heap of size 0 return -1 and leave the heap as a
\* freshly constructed empty heap.
C5_EmptyQueries ==
  (h_op \in {"top", "pop"} /\ Len(h_prev) = 0) =>
    /\ h_ret = -1
    /\ arr_ = <<>>
    /\ arr_ = HeapCtor(priority_, <<>>)

C5_Witness ==
  /\ h_op = "pop"
  /\ Len(h_prev) = 0
  /\ h_ret = -1

\* C6: the value top() or pop() returns on a non-empty heap is never the value
\* they return on an empty heap (-1).
C6_EmptySignalDistinct ==
  (h_op \in {"top", "pop"} /\ Len(h_prev) > 0) => h_ret /= -1

(***************************************************************************)
(* std::priority_queue<pair<int,string>>.  A pair is <<plays, title>>;     *)
(* pairs compare lexicographically.  The queue is kept as the sequence of  *)
(* its entries in the order top()/pop() deliver them.                      *)
(***************************************************************************)
Titles == 1..MaxTitle

Plays == 1..MaxPlays

PairLess(p, q) == p[1] < q[1] \/ (p[1] = q[1] /\ p[2] < q[2])

\* push on a queue declared with greater<>: the smallest pair is on top.
RECURSIVE MinPqPush(_, _)
MinPqPush(pq, x) ==
  IF Len(pq) = 0 THEN <<x>>
  ELSE IF PairLess(Head(pq), x) THEN <<Head(pq)>> \o MinPqPush(Tail(pq), x)
  ELSE <<x>> \o pq

\* push on a queue with the default less<>: the largest pair is on top.
RECURSIVE MaxPqPush(_, _)
MaxPqPush(pq, x) ==
  IF Len(pq) = 0 THEN <<x>>
  ELSE IF PairLess(x, Head(pq)) THEN <<Head(pq)>> \o MaxPqPush(Tail(pq), x)
  ELSE <<x>> \o pq

PqTop(pq) == Head(pq)

PqPop(pq) == Tail(pq)

(***************************************************************************)
(* Fixed-capacity TopSongs (src/dynamic_arrays/dynamic_arrays1.cc).        *)
(***************************************************************************)
\* Mutant of FixedRegister: evicts as soon as the heap holds k_ entries.
FixedRegisterEvictsAtK(pq, k, title, count) ==
  LET pushed == MinPqPush(pq, <<count, title>>)
  IN IF Len(pushed) >= k THEN PqPop(pushed) ELSE pushed

\* TopSongs::register_plays: the queue it leaves.
FixedRegister(pq, k, title, count) ==
  LET pushed == MinPqPush(pq, <<count, title>>)
  IN IF Len(pushed) > k THEN PqPop(pushed) ELSE pushed

\* The while loop of TopSongs::top_k on the copy pq_temp.
RECURSIVE FixedTopKLoop(_, _, _)
FixedTopKLoop(pq_temp, temp, res) ==
  IF Len(pq_temp) /= 0 /\ temp /= 0
  THEN FixedTopKLoop(PqPop(pq_temp), temp - 1, Append(res, PqTop(pq_temp)[2]))
  ELSE res

\* Mutant of FixedTopK: returns one title fewer than k_.
FixedTopKStopsEarly(pq, k) == FixedTopKLoop(pq, k - 1, <<>>)

\* TopSongs::top_k: the titles it returns.
FixedTopK(pq, k) == FixedTopKLoop(pq, k, <<>>)

\* Mutant of FixedTopKPq: the loop pops the member pq itself, not a copy.
FixedTopKPqDrained(pq, k) == SubSeq(pq, Min2(k, Len(pq)) + 1, Len(pq))

\* TopSongs::top_k: the member pq it leaves (the loop pops the copy pq_temp).
FixedTopKPq(pq, k) == pq

FixedInit ==
  /\ f_k_ \in 1..MaxK
  /\ f_pq = <<>>
  /\ f_regs = <<>>
  /\ f_op = "ctor"
  /\ f_ret = <<>>

FixedRegisterPlays(title, count) ==
  /\ Len(f_regs) < MaxRegs
  /\ f_pq' = FixedRegister(f_pq, f_k_, title, count)
  /\ f_regs' = MinPqPush(f_regs, <<count, title>>)
  /\ f_op' = "register_plays"
  /\ f_ret' = <<>>
  /\ UNCHANGED f_k_

FixedTopKCall ==
  /\ f_ret' = FixedTopK(f_pq, f_k_)
  /\ f_pq' = FixedTopKPq(f_pq, f_k_)
  /\ f_op' = "top_k"
  /\ UNCHANGED <<f_k_, f_regs>>

FixedNext ==
  \/ \E title \in Titles, count \in Plays :
       FixedRegisterPlays(title, count) /\ UNCHANGED <<heapVars, sizeVars, updVars, popVars, mergeVars, restVars>>
  \/ FixedTopKCall /\ UNCHANGED <<heapVars, sizeVars, updVars, popVars, mergeVars, restVars>>

SpecTopSongsInit == HeapIdle /\ SizeIdle /\ FixedInit /\ UpdIdle /\ PopIdle /\ MergeIdle /\ RestIdle

SpecTopSongs == SpecTopSongsInit /\ [][FixedNext]_vars

(***************************************************************************)
(* Claims about the fixed-capacity TopSongs.                               *)
(***************************************************************************)
\* The titles of the registrations are pairwise distinct.
DistinctTitles(regs) ==
  \A i, j \in DOMAIN regs : regs[i][2] = regs[j][2] => i = j

\* The position in regs of the registration of a title (titles distinct).
IndexOf(regs, title) == CHOOSE i \in DOMAIN regs : regs[i][2] = title

\* C7: with k >= 1 the internal heap holds at most k entries, exactly
\* min(k, number of registrations), after every register_plays call.
C7_HeapBounded ==
  /\ Len(f_pq) <= f_k_
  /\ Len(f_pq) = Min2(f_k_, Len(f_regs))

C7_Witness ==
  /\ f_op = "register_plays"
  /\ f_k_ >= 2
  /\ Len(f_regs) >= f_k_ + 2
  /\ Len(f_pq) = f_k_

\* C8: with distinct titles, top_k() returns min(k, r) titles and the multiset
\* of their scores is the multiset of the min(k, r) largest scores registered.
C8_TopKHighest ==
  (f_op = "top_k" /\ DistinctTitles(f_regs)) =>
    LET r == Len(f_regs)
        m == Min2(f_k_, r)
        got == [i \in 1..Len(f_ret) |-> f_regs[IndexOf(f_regs, f_ret[i])][1]]
        best == [i \in 1..m |-> f_regs[r - m + i][1]]
    IN /\ Len(f_ret) = m
       /\ \A i \in 1..Len(f_ret) : \E j \in DOMAIN f_regs : f_regs[j][2] = f_ret[i]
       /\ \A i, j \in 1..Len(f_ret) : f_ret[i] = f_ret[j] => i = j
       /\ SameBag(got, best)

C8_Witness ==
  /\ f_op = "top_k"
  /\ DistinctTitles(f_regs)
  /\ f_k_ = 2
  /\ Len(f_regs) = 3
  /\ Len(f_ret) = 2
  /\ f_regs[1][1] = f_regs[2][1]
  /\ f_regs[2][1] < f_regs[3][1]

(***************************************************************************)
(* Updatable TopSongs (src/heap/top_songs_class_with_updates.cc).          *)
(* umap is a function whose domain is the set of keys it holds.            *)
(***************************************************************************)
\* unordered_map::operator[]: the map after the access (a missing key is
\* inserted with the value 0).
UmapIndex(m, title) ==
  [t \in DOMAIN m \cup {title} |-> IF t \in DOMAIN m THEN m[t] ELSE 0]

UmapSet(m, title, v) ==
  [t \in DOMAIN m \cup {title} |-> IF t = title THEN v ELSE m[t]]

\* Mutant of UpdNewTotal: the count replaces the stored total.
UpdNewTotalOverwrites(m, title, count) == count

\* TopSongs::register_plays: newTotalPlays.
UpdNewTotal(m, title, count) ==
  IF title \in DOMAIN m THEN count + UmapIndex(m, title)[title] ELSE count

\* TopSongs::register_plays: the map and the queue it leaves.
UpdRegister(pq, m, title, count) ==
  LET newTotalPlays == UpdNewTotal(m, title, count)
  IN [umap |-> UmapSet(m, title, newTotalPlays),
      pq |-> MaxPqPush(pq, <<newTotalPlays, title>>)]

\* Mutant of UpdFresh: every popped entry is taken as current.
UpdFreshAlways(m, title, count) == TRUE

\* The validation of a popped entry: umap[title] == count.
UpdFresh(m, title, count) == UmapIndex(m, title)[title] = count

\* The while loop of TopSongs::top_k.
RECURSIVE UpdTopKLoop(_, _, _, _)
UpdTopKLoop(pq, m, res, k) ==
  IF Len(res) < k /\ Len(pq) /= 0
  THEN LET count == PqTop(pq)[1]
           title == PqTop(pq)[2]
       IN UpdTopKLoop(PqPop(pq), UmapIndex(m, title),
                      IF UpdFresh(m, title, count) THEN Append(res, title) ELSE res,
                      k)
  ELSE [pq |-> pq, umap |-> m, res |-> res]

\* Mutant of UpdRepush: the collected titles are not pushed back.
UpdRepushNothing(pq, m, res, i) == [pq |-> pq, umap |-> m]

\* The for loop of TopSongs::top_k: re-push res[i], res[i+1], ...
RECURSIVE UpdRepush(_, _, _, _)
UpdRepush(pq, m, res, i) ==
  IF i > Len(res) THEN [pq |-> pq, umap |-> m]
  ELSE LET m2 == UmapIndex(m, res[i])
       IN UpdRepush(MaxPqPush(pq, <<m2[res[i]], res[i]>>), m2, res, i + 1)

\* TopSongs::top_k: the queue and the map it leaves, and the titles it returns.
UpdTopK(pq, m, k) ==
  LET popped == UpdTopKLoop(pq, m, <<>>, k)
      pushed == UpdRepush(popped.pq, popped.umap, popped.res, 1)
  IN [pq |-> pushed.pq, umap |-> pushed.umap, res |-> popped.res]

UpdInit ==
  /\ u_k_ \in 1..MaxK
  /\ u_pq = <<>>
  /\ umap = <<>>
  /\ u_sum = [t \in Titles |-> 0]
  /\ u_seen = {}
  /\ u_regs = 0
  /\ u_op = "ctor"
  /\ u_ret = <<>>

UpdRegisterPlays(title, count) ==
  /\ u_regs < MaxRegs
  /\ umap' = UpdRegister(u_pq, umap, title, count).umap
  /\ u_pq' = UpdRegister(u_pq, umap, title, count).pq
  /\ u_sum' = [u_sum EXCEPT ![title] = @ + count]
  /\ u_seen' = u_seen \cup {title}
  /\ u_regs' = u_regs + 1
  /\ u_op' = "register_plays"
  /\ u_ret' = <<>>
  /\ UNCHANGED u_k_

UpdTopKCall ==
  /\ umap' = UpdTopK(u_pq, umap, u_k_).umap
  /\ u_pq' = UpdTopK(u_pq, umap, u_k_).pq
  /\ u_ret' = UpdTopK(u_pq, umap, u_k_).res
  /\ u_op' = "top_k"
  /\ UNCHANGED <<u_k_, u_sum, u_seen, u_regs>>

UpdNext ==
  \/ \E title \in Titles, count \in Plays :
       UpdRegisterPlays(title, count) /\ UNCHANGED <<heapVars, sizeVars, fixedVars, popVars, mergeVars, restVars>>
  \/ UpdTopKCall /\ UNCHANGED <<heapVars, sizeVars, fixedVars, popVars, mergeVars, restVars>>

SpecTopSongsUpdInit == HeapIdle /\ SizeIdle /\ FixedIdle /\ UpdInit /\ PopIdle /\ MergeIdle /\ RestIdle

SpecTopSongsUpd == SpecTopSongsUpdInit /\ [][UpdNext]_vars

(***************************************************************************)
(* Claims about the updatable TopSongs.                                    *)
(***************************************************************************)
\* C9: umap holds exactly the titles registered so far, each with the sum of
\* all counts ever registered for it; top_k() changes no stored value.
C9_MapAuthoritative ==
  /\ DOMAIN umap = u_seen
  /\ \A title \in u_seen : umap[title] = u_sum[title]

C9_Witness ==
  /\ u_op = "top_k"
  /\ \E title \in u_seen : umap[title] = 2 * MaxPlays + 1
  /\ Cardinality(u_seen) >= 2
  /\ Len(u_pq) < u_regs

\* C10: with k >= 1 and counts >= 1, top_k() returns min(k, d) distinct
\* registered titles (d = number of distinct titles registered) whose current
\* totals are the min(k, d) largest current totals.
C10_TopKCurrent ==
  u_op = "top_k" =>
    LET d == Cardinality(u_seen)
        got == {u_ret[i] : i \in DOMAIN u_ret}
    IN /\ Len(u_ret) = Min2(u_k_, d)
       /\ \A i, j \in DOMAIN u_ret : u_ret[i] = u_ret[j] => i = j
       /\ got \subseteq u_seen
       /\ \A t \in got : \A other \in u_seen \ got : u_sum[t] >= u_sum[other]

C10_Witness ==
  /\ u_op = "top_k"
  /\ u_k_ = 2
  /\ Cardinality(u_seen) = 3
  /\ u_regs = 4
  /\ Len(u_ret) = 2
  /\ u_sum[u_ret[1]] > MaxPlays
  /\ \E t \in u_seen : u_sum[t] < u_sum[u_ret[2]]

\* The entries of the heap that are fresh: <<c, title>> with c = umap[title].
FreshEntries(pq, m) ==
  {e \in Range(pq) : e[2] \in DOMAIN m /\ m[e[2]] = e[1]}

\* C11: every title present in umap has at least one fresh entry in the heap,
\* in every state reached by register_plays and top_k calls.
C11_FreshEntryKept ==
  \A title \in DOMAIN umap : <<umap[title], title>> \in FreshEntries(u_pq, umap)

C11_Witness ==
  /\ u_op = "top_k"
  /\ Cardinality(DOMAIN umap) > u_k_
  /\ u_k_ >= 2
  /\ Len(u_pq) < u_regs
  /\ \A title \in DOMAIN umap : <<umap[title], title>> \in Range(u_pq)

(***************************************************************************)
(* SpecBothTrackers: a fixed-capacity and an updatable TopSongs built with *)
(* the same k and given the same calls.                                    *)
(***************************************************************************)
BothInit == FixedInit /\ UpdInit /\ f_k_ = u_k_

BothRegisterPlays(title, count) ==
  FixedRegisterPlays(title, count) /\ UpdRegisterPlays(title, count)

BothTopKCall == FixedTopKCall /\ UpdTopKCall

BothNext ==
  \/ \E title \in Titles, count \in Plays :
       BothRegisterPlays(title, count) /\ UNCHANGED <<heapVars, sizeVars, popVars, mergeVars, restVars>>
  \/ BothTopKCall /\ UNCHANGED <<heapVars, sizeVars, popVars, mergeVars, restVars>>

SpecBothTrackersInit == HeapIdle /\ SizeIdle /\ BothInit /\ PopIdle /\ MergeIdle /\ RestIdle

SpecBothTrackers == SpecBothTrackersInit /\ [][BothNext]_vars

\* C12: top_k() called twice in a row returns the same multiset of titles, for
\* both trackers; the fixed-capacity top_k() leaves the heap unchanged, and the
\* updatable top_k() leaves the set of fresh heap entries unchanged.
C12_TopKIdempotent ==
  [][/\ (f_op' = "top_k" => f_pq' = f_pq)
     /\ ((f_op = "top_k" /\ f_op' = "top_k") => SameBag(f_ret', f_ret))
     /\ ((u_op = "top_k" /\ u_op' = "top_k") => SameBag(u_ret', u_ret))
     /\ (u_op' = "top_k" =>
           FreshEntries(u_pq', umap') = FreshEntries(u_pq, umap))]_vars

C12_Witness ==
  /\ f_op = "top_k"
  /\ u_op = "top_k"
  /\ Len(f_ret) >= 2
  /\ Len(u_ret) >= 2
  /\ Len(f_pq) = Len(f_ret)
  /\ Len(u_pq) < u_regs
  /\ Cardinality(u_seen) > u_k_

(***************************************************************************)
(* PopularSongs (src/heap/popular_song_class.cc).  A priority_queue<int>   *)
(* is kept as the sequence of its entries in the order top()/pop() deliver *)
(* them.  Play counts are at most 10^9, so the int sum of two of them does *)
(* not overflow.                                                           *)
(***************************************************************************)
PopTitles == 1..MaxPopTitle

PopPlays == 1..MaxPopPlays

\* priority_queue<int>::push: the largest value is on top.
RECURSIVE IntMaxPqPush(_, _)
IntMaxPqPush(pq, x) ==
  IF Len(pq) = 0 THEN <<x>>
  ELSE IF x < Head(pq) THEN <<Head(pq)>> \o IntMaxPqPush(Tail(pq), x)
  ELSE <<x>> \o pq

\* priority_queue<int, vector<int>, greater<int>>::push: the smallest on top.
RECURSIVE IntMinPqPush(_, _)
IntMinPqPush(pq, x) ==
  IF Len(pq) = 0 THEN <<x>>
  ELSE IF Head(pq) < x THEN <<Head(pq)>> \o IntMinPqPush(Tail(pq), x)
  ELSE <<x>> \o pq

\* Mutant of PopRegister: moves an entry back also when the sizes are equal.
PopRegisterRebalancesOnTie(m, maxq, minq, title, plays) ==
  LET a1 == IntMaxPqPush(maxq, plays)
      b1 == IntMinPqPush(minq, PqTop(a1))
      a2 == PqPop(a1)
  IN IF Len(a2) <= Len(b1)
     THEN [umap |-> UmapSet(m, title, plays),
           max_pq |-> IntMaxPqPush(a2, PqTop(b1)), min_pq |-> PqPop(b1)]
     ELSE [umap |-> UmapSet(m, title, plays), max_pq |-> a2, min_pq |-> b1]

\* Mutant of PopRegister: plays goes straight into min_pq, not through max_pq.
PopRegisterSkipsLower(m, maxq, minq, title, plays) ==
  LET b1 == IntMinPqPush(minq, plays)
  IN IF Len(maxq) < Len(b1)
     THEN [umap |-> UmapSet(m, title, plays),
           max_pq |-> IntMaxPqPush(maxq, PqTop(b1)), min_pq |-> PqPop(b1)]
     ELSE [umap |-> UmapSet(m, title, plays), max_pq |-> maxq, min_pq |-> b1]

\* PopularSongs::register_plays: the map and the two heaps it leaves.
PopRegister(m, maxq, minq, title, plays) ==
  LET a1 == IntMaxPqPush(maxq, plays)
      b1 == IntMinPqPush(minq, PqTop(a1))
      a2 == PqPop(a1)
  IN IF Len(a2) < Len(b1)
     THEN [umap |-> UmapSet(m, title, plays),
           max_pq |-> IntMaxPqPush(a2, PqTop(b1)), min_pq |-> PqPop(b1)]
     ELSE [umap |-> UmapSet(m, title, plays), max_pq |-> a2, min_pq |-> b1]

\* Mutant of PopMedian: the mean of the two tops is rounded up.
PopMedianRoundsUp(maxq, minq) ==
  IF Len(maxq) > Len(minq) THEN PqTop(maxq)
  ELSE CDiv(PqTop(maxq) + PqTop(minq) + 1, 2)

\* PopularSongs::is_popular: median.
PopMedian(maxq, minq) ==
  IF Len(maxq) > Len(minq) THEN PqTop(maxq)
  ELSE CDiv(PqTop(maxq) + PqTop(minq), 2)

\* Mutant of PopIsPopular: a count equal to the median counts as popular.
PopIsPopularOrEqual(m, maxq, minq, title) ==
  IF title \notin DOMAIN m THEN FALSE
  ELSE PopMedian(maxq, minq) <= m[title]

\* PopularSongs::is_popular: the value it returns.
PopIsPopular(m, maxq, minq, title) ==
  IF title \notin DOMAIN m THEN FALSE
  ELSE PopMedian(maxq, minq) < m[title]

PopInit ==
  /\ p_umap = <<>>
  /\ max_pq = <<>>
  /\ min_pq = <<>>
  /\ p_counts = <<>>
  /\ p_op = "ctor"
  /\ p_title = 0
  /\ p_ret = FALSE

\* register_plays is never called with the same title twice.
PopRegisterPlays(title, plays) ==
  /\ title \notin DOMAIN p_umap
  /\ p_umap' = PopRegister(p_umap, max_pq, min_pq, title, plays).umap
  /\ max_pq' = PopRegister(p_umap, max_pq, min_pq, title, plays).max_pq
  /\ min_pq' = PopRegister(p_umap, max_pq, min_pq, title, plays).min_pq
  /\ p_counts' = IntMinPqPush(p_counts, plays)
  /\ p_op' = "register_plays"
  /\ p_title' = title
  /\ p_ret' = FALSE

PopIsPopularCall(title) ==
  /\ p_ret' = PopIsPopular(p_umap, max_pq, min_pq, title)
  /\ p_op' = "is_popular"
  /\ p_title' = title
  /\ UNCHANGED <<p_umap, max_pq, min_pq, p_counts>>

PopNext ==
  \/ \E title \in PopTitles, plays \in PopPlays :
       PopRegisterPlays(title, plays)
         /\ UNCHANGED <<heapVars, sizeVars, fixedVars, updVars, mergeVars, restVars>>
  \/ \E title \in PopTitles :
       PopIsPopularCall(title)
         /\ UNCHANGED <<heapVars, sizeVars, fixedVars, updVars, mergeVars, restVars>>

SpecPopularSongsInit ==
  HeapIdle /\ SizeIdle /\ FixedIdle /\ UpdIdle /\ PopInit /\ MergeIdle /\ RestIdle

SpecPopularSongs == SpecPopularSongsInit /\ [][PopNext]_vars

(***************************************************************************)
(* Claims about PopularSongs.                                              *)
(***************************************************************************)
\* The median of the ascending sequence s, the mean of the two middle
\* elements truncated for an even length.
TruncatedMedian(s) ==
  LET n == Len(s)
  IN IF n % 2 = 1 THEN s[(n + 1) \div 2]
     ELSE (s[n \div 2] + s[n \div 2 + 1]) \div 2

\* Twice the exact median of the ascending sequence s.
TwiceMedian(s) ==
  LET n == Len(s)
  IN IF n % 2 = 1 THEN 2 * s[(n + 1) \div 2]
     ELSE s[n \div 2] + s[n \div 2 + 1]

\* C13: |max_pq| = |min_pq| or |max_pq| = |min_pq| + 1, and the two sizes add
\* up to the number of register_plays calls.
C13_HeapSizes ==
  /\ Len(max_pq) = Len(min_pq) \/ Len(max_pq) = Len(min_pq) + 1
  /\ Len(max_pq) + Len(min_pq) = Len(p_counts)

C13_Witness ==
  /\ p_op = "register_plays"
  /\ Len(p_counts) = 4
  /\ Len(max_pq) = 2
  /\ Len(min_pq) = 2

\* C14: every value in max_pq is <= every value in min_pq, and the two heaps
\* together hold exactly the multiset of the registered play counts.
C14_HeapPartition ==
  /\ \A x \in Range(max_pq) : \A y \in Range(min_pq) : x <= y
  /\ SameBag(max_pq \o min_pq, p_counts)

C14_Witness ==
  /\ p_op = "register_plays"
  /\ Len(p_counts) = 3
  /\ Len(min_pq) = 1
  /\ PqTop(max_pq) = PqTop(min_pq)
  /\ p_umap[p_title] < PqTop(max_pq)

\* C15: the median is_popular computes is the middle element of the sorted
\* counts for an odd number of counts, and the truncated mean of the two
\* middle elements for an even number.
C15_Median ==
  Len(p_counts) > 0 => PopMedian(max_pq, min_pq) = TruncatedMedian(p_counts)

C15_Witness ==
  /\ p_op = "is_popular"
  /\ Len(p_counts) = 4
  /\ (p_counts[2] + p_counts[3]) % 2 = 1
  /\ PopMedian(max_pq, min_pq) = p_counts[2]
  /\ p_counts[1] < p_counts[2]

\* C16: is_popular(title) returns true exactly when the title is registered
\* and its play count is strictly higher than the exact median of the
\* registered play counts.
C16_PopularIffAboveMedian ==
  p_op = "is_popular" =>
    p_ret = (/\ p_title \in DOMAIN p_umap
             /\ 2 * p_umap[p_title] > TwiceMedian(p_counts))

C16_Witness ==
  /\ p_op = "is_popular"
  /\ Len(p_counts) = 2
  /\ p_title \in DOMAIN p_umap
  /\ 2 * p_umap[p_title] = TwiceMedian(p_counts) + 1
  /\ p_ret = TRUE

(***************************************************************************)
(* most_listened_across_genres                                             *)
(* (src/heap/top_songs_class_with_updates.cc).  A song is <<title, plays>>;*)
(* a heap entry is <<<<plays, title>>, genre index>>, the genre index      *)
(* 0-based as in the code.  m_pc is "init" in the initialization loop,     *)
(* "loop" at the head of the while loop, "done" after the return, and      *)
(* "crashed" when a read past the end of a vector has ended the program.   *)
(***************************************************************************)
\* Non-increasing sequences of play counts of length at most n.
DescPlays(n) ==
  {s \in SeqsUpTo(Plays, n) : \A i \in 1..(Len(s) - 1) : s[i] >= s[i + 1]}

\* The title of song j of list i (both 0-based): titles are unique.
TitleAt(i, j, rev) ==
  IF rev THEN (MaxGenres - i) * (MaxListLen + 1) - j
  ELSE i * (MaxListLen + 1) + j + 1

\* What a read past the end of a vector may deliver as a song.
GarbageSongs == {<<0, plays>> : plays \in 0..MaxPlays}

\* Mutant of EntryLess: the comparison of greater<>, as for a min-heap.
EntryLessReversed(x, y) ==
  PairLess(y[1], x[1]) \/ (x[1] = y[1] /\ y[2] < x[2])

\* operator< on pair<pair<int,string>,int>.
EntryLess(x, y) == PairLess(x[1], y[1]) \/ (x[1] = y[1] /\ x[2] < y[2])

\* priority_queue<pair<pair<int,string>,int>>::push: the largest on top.
RECURSIVE MergePqPush(_, _)
MergePqPush(pq, x) ==
  IF Len(pq) = 0 THEN <<x>>
  ELSE IF EntryLess(x, Head(pq)) THEN <<Head(pq)>> \o MergePqPush(Tail(pq), x)
  ELSE <<x>> \o pq

\* {{song.second, song.first}, index}
MergeEntry(song, index) == <<<<song[2], song[1]>>, index>>

\* Mutant of MergeJ: j = index_vec[index]++.
MergeJPostIncrement(iv, index) == At(iv, index)

\* j = ++index_vec[index]: the value of j.
MergeJ(iv, index) == At(iv, index) + 1

\* Mutant of MergeBreak: breaks one emission too late.
MergeBreakLate(res, k) == Len(res) = k + 1

\* if(res.size()==static_cast<size_t>(k)) break;
MergeBreak(res, k) == Len(res) = k

MergeInit ==
  /\ \E m \in 1..MaxGenres, rev \in BOOLEAN :
       \E plays \in [1..m -> DescPlays(MaxListLen)] :
         genres = [i \in 1..m |->
                     [j \in 1..Len(plays[i]) |->
                        <<TitleAt(i - 1, j - 1, rev), plays[i][j]>>]]
  /\ m_k \in 1..MaxK
  /\ m_pq = <<>>
  /\ index_vec = <<>>
  /\ m_res = <<>>
  /\ m_i = 0
  /\ m_pc = "init"
  /\ m_oob = FALSE

\* One pass of the initialization loop, genres[i] holding a song.
MergeInitPush ==
  /\ m_pc = "init"
  /\ m_i < Len(genres)
  /\ Len(At(genres, m_i)) > 0
  /\ m_pq' = MergePqPush(m_pq, MergeEntry(At(At(genres, m_i), 0), m_i))
  /\ m_i' = m_i + 1
  /\ UNCHANGED <<genres, m_k, index_vec, m_res, m_pc, m_oob>>

\* One pass of the initialization loop, genres[i] empty: genres[i][0] reads
\* past the end of the vector, which ends the program or delivers anything.
MergeInitPushPastEnd ==
  /\ m_pc = "init"
  /\ m_i < Len(genres)
  /\ Len(At(genres, m_i)) = 0
  /\ m_oob' = TRUE
  /\ \/ /\ m_pc' = "crashed"
        /\ UNCHANGED <<m_pq, m_i>>
     \/ /\ \E song \in GarbageSongs :
             m_pq' = MergePqPush(m_pq, MergeEntry(song, m_i))
        /\ m_i' = m_i + 1
        /\ UNCHANGED m_pc
  /\ UNCHANGED <<genres, m_k, index_vec, m_res>>

\* The end of the initialization loop: vector<int> index_vec(n, 0).
MergeInitDone ==
  /\ m_pc = "init"
  /\ m_i = Len(genres)
  /\ index_vec' = [i \in 1..Len(genres) |-> 0]
  /\ m_pc' = "loop"
  /\ UNCHANGED <<genres, m_k, m_pq, m_res, m_i, m_oob>>

\* One pass of the while loop.
MergeIter ==
  /\ m_pc = "loop"
  /\ Len(m_pq) /= 0
  /\ LET p == PqTop(m_pq)
         popped == PqPop(m_pq)
         res == Append(m_res, p[1][2])
         index == p[2]
         j == MergeJ(index_vec, index)
     IN /\ m_res' = res
        /\ IF MergeBreak(res, m_k)
           THEN /\ m_pc' = "done"
                /\ m_pq' = popped
                /\ UNCHANGED <<index_vec, m_oob>>
           ELSE /\ index_vec' = [index_vec EXCEPT ![index + 1] = @ + 1]
                /\ IF j = Len(At(genres, index))
                   THEN /\ m_pq' = popped
                        /\ UNCHANGED <<m_pc, m_oob>>
                   ELSE IF j < Len(At(genres, index))
                   THEN /\ m_pq' = MergePqPush(popped,
                                     MergeEntry(At(At(genres, index), j), index))
                        /\ UNCHANGED <<m_pc, m_oob>>
                   ELSE /\ m_oob' = TRUE
                        /\ \/ /\ m_pc' = "crashed"
                              /\ m_pq' = popped
                           \/ /\ \E song \in GarbageSongs :
                                   m_pq' = MergePqPush(popped, MergeEntry(song, index))
                              /\ UNCHANGED m_pc
  /\ UNCHANGED <<genres, m_k, m_i>>

\* The while loop ends with the heap empty: return res.
MergeReturn ==
  /\ m_pc = "loop"
  /\ Len(m_pq) = 0
  /\ m_pc' = "done"
  /\ UNCHANGED <<genres, m_k, m_pq, index_vec, m_res, m_i, m_oob>>

MergeNext ==
  \/ MergeInitPush /\ UNCHANGED <<heapVars, sizeVars, fixedVars, updVars, popVars, restVars>>
  \/ MergeInitPushPastEnd /\ UNCHANGED <<heapVars, sizeVars, fixedVars, updVars, popVars, restVars>>
  \/ MergeInitDone /\ UNCHANGED <<heapVars, sizeVars, fixedVars, updVars, popVars, restVars>>
  \/ MergeIter /\ UNCHANGED <<heapVars, sizeVars, fixedVars, updVars, popVars, restVars>>
  \/ MergeReturn /\ UNCHANGED <<heapVars, sizeVars, fixedVars, updVars, popVars, restVars>>

SpecMergeInit ==
  HeapIdle /\ SizeIdle /\ FixedIdle /\ UpdIdle /\ PopIdle /\ MergeInit /\ RestIdle

SpecMerge == SpecMergeInit /\ [][MergeNext]_vars

\* The function runs to its end: no step of it waits for anything.
SpecMergeFair == SpecMerge /\ WF_vars(MergeNext)

\* The genre lists are all non-empty, as the problem statement requires.
AllNonEmpty(g) == \A i \in DOMAIN g : Len(g[i]) > 0

\* n: the number of songs in all the lists.
RECURSIVE TotalSongs(_)
TotalSongs(g) == IF Len(g) = 0 THEN 0 ELSE Len(Head(g)) + TotalSongs(Tail(g))

\* The play counts of all the lists, concatenated.
RECURSIVE AllPlays(_)
AllPlays(g) ==
  IF Len(g) = 0 THEN <<>>
  ELSE [j \in 1..Len(Head(g)) |-> Head(g)[j][2]] \o AllPlays(Tail(g))

\* The play count of a title of the input.
PlaysOfTitle(g, title) ==
  LET where == CHOOSE w \in {<<i, j>> : i \in DOMAIN g, j \in 1..MaxListLen} :
                 w[2] <= Len(g[w[1]]) /\ g[w[1]][w[2]][1] = title
  IN g[where[1]][where[2]][2]

TitlesOfInput(g) == {g[i][j][1] : <<i, j>> \in
                       {w \in (DOMAIN g) \X (1..MaxListLen) : w[2] <= Len(g[w[1]])}}

RECURSIVE SumSeq(_)
SumSeq(s) == IF Len(s) = 0 THEN 0 ELSE Head(s) + SumSeq(Tail(s))

\* C17: for m >= 1 non-empty lists sorted by plays descending, unique titles
\* and 1 <= k <= n, the titles returned are k different titles of the input
\* whose play counts, in output order, are the first k play counts of all
\* the lists' play counts sorted descending (so they are non-increasing).
C17_MergeTopK ==
  (m_pc = "done" /\ AllNonEmpty(genres) /\ m_k <= TotalSongs(genres)) =>
     /\ Len(m_res) = m_k
     /\ Range(m_res) \subseteq TitlesOfInput(genres)
     /\ Cardinality(Range(m_res)) = m_k
     /\ [i \in 1..Len(m_res) |-> PlaysOfTitle(genres, m_res[i])]
          = SubSeq(SortByPriority(AllPlays(genres), ">"), 1, m_k)
     /\ \A i \in 1..(Len(m_res) - 1) :
          PlaysOfTitle(genres, m_res[i]) >= PlaysOfTitle(genres, m_res[i + 1])

\* Three songs returned out of two lists, each list having given at least one.
C17_Witness ==
  /\ m_pc = "done"
  /\ AllNonEmpty(genres)
  /\ Len(genres) = 2
  /\ m_k = 3
  /\ Len(m_res) = 3
  /\ \A i \in DOMAIN index_vec : index_vec[i] >= 1

C19_EmptyListSkipped ==
  /\ ~m_oob
  /\ m_pc /= "crashed"
  /\ \A a \in DOMAIN m_pq :
       m_pq[a][2] \in 0..(Len(genres) - 1) /\ Len(At(genres, m_pq[a][2])) > 0

\* What the function has done when it has returned, the lists non-empty.
MergeStopsRight ==
  (m_pc = "done" /\ AllNonEmpty(genres)) =>
     /\ Len(m_res) = Min2(m_k, TotalSongs(genres))
     /\ m_k <= TotalSongs(genres) => SumSeq(index_vec) = m_k - 1
     /\ m_k >= TotalSongs(genres) =>
          /\ m_pq = <<>>
          /\ Range(m_res) = TitlesOfInput(genres)

\* C20: with k >= 1 and n songs in non-empty lists the function returns,
\* with exactly min(k, n) titles; having emitted the k-th title it has
\* advanced only k - 1 times (nothing is pushed after the k-th emission);
\* for k >= n every song of every list is returned and the heap is empty.
C20_MergeTerminates ==
  /\ (AllNonEmpty(genres) /\ m_k >= 1) => <>(m_pc = "done")
  /\ []MergeStopsRight

\* k above n: both songs returned, the heap empty, the loop ended by
\* its condition.
C20_Witness ==
  /\ m_pc = "done"
  /\ AllNonEmpty(genres)
  /\ m_k > TotalSongs(genres)
  /\ TotalSongs(genres) >= 2
  /\ Len(m_res) = TotalSongs(genres)
  /\ m_pq = <<>>

(***************************************************************************)
(* top_k, the flat min-heap version (src/heap/most_played_across_genre.cc).*)
(* t_pc is "scan" in the two nested loops, "drain" in the while loop and   *)
(* "done" after the return.                                                *)
(***************************************************************************)
\* The genre lists handed to the function: m lists sorted by plays descending.
GenreLists(m, rev) ==
  {[i \in 1..m |-> [j \in 1..Len(plays[i]) |->
                      <<TitleAt(i - 1, j - 1, rev), plays[i][j]>>]] :
     plays \in [1..m -> DescPlays(MaxListLen)]}

\* pq.push({p.second,p.first}); if(pq.size()>k) pq.pop();
FlatPush(pq, p, k) ==
  LET pushed == MinPqPush(pq, <<p[2], p[1]>>)
  IN IF Len(pushed) > k THEN PqPop(pushed) ELSE pushed

FlatInit ==
  /\ \E m \in 1..MaxGenres, rev \in BOOLEAN : inputs \in GenreLists(m, rev)
  /\ t_k \in 1..MaxK
  /\ t_pq = <<>>
  /\ t_title = <<>>
  /\ t_i = 0
  /\ t_j = 0
  /\ t_pc = "scan"

\* One pass of the inner loop.
FlatInner ==
  /\ t_pc = "scan"
  /\ t_i < Len(inputs)
  /\ t_j < Len(At(inputs, t_i))
  /\ t_pq' = FlatPush(t_pq, At(At(inputs, t_i), t_j), t_k)
  /\ t_j' = t_j + 1
  /\ UNCHANGED <<inputs, t_k, t_title, t_i, t_pc>>

\* The inner loop ends: the outer loop goes to the next vec.
FlatOuter ==
  /\ t_pc = "scan"
  /\ t_i < Len(inputs)
  /\ t_j = Len(At(inputs, t_i))
  /\ t_i' = t_i + 1
  /\ t_j' = 0
  /\ UNCHANGED <<inputs, t_k, t_pq, t_title, t_pc>>

\* The outer loop ends.
FlatScanDone ==
  /\ t_pc = "scan"
  /\ t_i = Len(inputs)
  /\ t_pc' = "drain"
  /\ UNCHANGED <<inputs, t_k, t_pq, t_title, t_i, t_j>>

\* One pass of the while loop.
FlatDrain ==
  /\ t_pc = "drain"
  /\ Len(t_pq) /= 0
  /\ t_title' = Append(t_title, PqTop(t_pq)[2])
  /\ t_pq' = PqPop(t_pq)
  /\ UNCHANGED <<inputs, t_k, t_i, t_j, t_pc>>

\* return title
FlatReturn ==
  /\ t_pc = "drain"
  /\ Len(t_pq) = 0
  /\ t_pc' = "done"
  /\ UNCHANGED <<inputs, t_k, t_pq, t_title, t_i, t_j>>

FlatNext ==
  \/ FlatInner /\ UNCHANGED <<oldVars, primeVars, sortVars, dynVars, viewVars, urlVars>>
  \/ FlatOuter /\ UNCHANGED <<oldVars, primeVars, sortVars, dynVars, viewVars, urlVars>>
  \/ FlatScanDone /\ UNCHANGED <<oldVars, primeVars, sortVars, dynVars, viewVars, urlVars>>
  \/ FlatDrain /\ UNCHANGED <<oldVars, primeVars, sortVars, dynVars, viewVars, urlVars>>
  \/ FlatReturn /\ UNCHANGED <<oldVars, primeVars, sortVars, dynVars, viewVars, urlVars>>

SpecFlatTopKInit == OldIdle /\ FlatInit /\ SumIdle /\ HsIdle /\ DynIdle /\ ViewIdle /\ UrlIdle

SpecFlatTopK == SpecFlatTopKInit /\ [][FlatNext]_vars

\* C21: for non-empty lists with unique titles and 1 <= k <= n, the play
\* counts of the titles returned, in output order, are non-increasing
\* (the result goes from the most to the least listened song).
C21_FlatTopKDescending ==
  (t_pc = "done" /\ AllNonEmpty(inputs) /\ t_k <= TotalSongs(inputs)) =>
     \A i \in 1..(Len(t_title) - 1) :
        PlaysOfTitle(inputs, t_title[i]) >= PlaysOfTitle(inputs, t_title[i + 1])

(***************************************************************************)
(* sum_first_k, the long long version (src/heap/readme.md).  A long long   *)
(* that is not negative is held as the sequence of its digits in base      *)
(* Limb, the least significant first and the most significant not 0, so    *)
(* that no value of the model leaves the range of the checker's integers.  *)
(* s_pc is "init" in the initialization loop, "loop" at the head of the    *)
(* while loop, "done" after a return, "crashed" when the program has been  *)
(* ended by an overflow trap.                                              *)
(***************************************************************************)
Limb == 1000

\* const long long MOD = 1e9 + 7
MOD == 1000000007

\* 1e18
OneE18 == <<0, 0, 0, 0, 0, 0, 1>>

\* The largest long long, 2^63 - 1 = 9223372036854775807.
LLongMax == <<807, 775, 854, 36, 372, 223, 9>>

\* The long long of an int that is not negative.
RECURSIVE FromInt(_)
FromInt(n) == IF n = 0 THEN <<>> ELSE <<n % Limb>> \o FromInt(n \div Limb)

\* a * b + carry, for an int b >= 1.
RECURSIVE MulCarry(_, _, _)
MulCarry(a, b, carry) ==
  IF Len(a) = 0 THEN FromInt(carry)
  ELSE LET v == Head(a) * b + carry
       IN <<v % Limb>> \o MulCarry(Tail(a), b, v \div Limb)

\* power * base, as a number.
BigMul(a, b) == MulCarry(a, b, 0)

\* a < b
RECURSIVE BigLess(_, _)
BigLess(a, b) ==
  IF Len(a) /= Len(b) THEN Len(a) < Len(b)
  ELSE IF Len(a) = 0 THEN FALSE
  ELSE IF a[Len(a)] /= b[Len(b)] THEN a[Len(a)] < b[Len(b)]
  ELSE BigLess(PopBack(a), PopBack(b))

\* (r * Limb) % MOD for 0 <= r < MOD, no intermediate value leaving the
\* range of the checker's integers: with r = q * 10^6 + t,
\* r * 10^3 = q * 10^9 + t * 10^3, and 10^9 = MOD - 7.
ShiftMod(r) == (Limb * (r % 1000000) - 7 * (r \div 1000000) + MOD) % MOD

\* power % MOD
RECURSIVE BigMod(_)
BigMod(a) ==
  IF Len(a) = 0 THEN 0
  ELSE (ShiftMod(BigMod(Tail(a))) + Head(a)) % MOD

\* The primes the function is called with.
PrimeChoices == {2, 3, 999983, 1000003}

\* What power * base may leave in next_power once it has overflowed.
GarbagePowers == {<<>>, <<1>>, <<1, 0, 0, 0, 0, 0, 1>>}

\* greater<pair<long long, int>> puts the smaller pair on top.
PowerLess(x, y) == BigLess(x[1], y[1]) \/ (x[1] = y[1] /\ x[2] < y[2])

RECURSIVE SumPqPush(_, _)
SumPqPush(pq, x) ==
  IF Len(pq) = 0 THEN <<x>>
  ELSE IF PowerLess(Head(pq), x) THEN <<Head(pq)>> \o SumPqPush(Tail(pq), x)
  ELSE <<x>> \o pq

\* if (next_power <= 1e18)
SumKeeps(x) == ~BigLess(OneE18, x)

\* sum_primes = (sum_primes + power % MOD) % MOD
SumAdd(sum, x) == (sum + BigMod(x)) % MOD

SumInit ==
  /\ primes \in {q \in SeqsUpTo(PrimeChoices, MaxPrimes) :
                   Len(q) >= 1 /\ Cardinality(Range(q)) = Len(q)}
  /\ s_k \in -1..MaxSumK
  /\ s_pq = <<>>
  /\ sum_primes = 0
  /\ counter = 0
  /\ s_i = 0
  /\ s_pc = "init"
  /\ s_ovf = FALSE
  /\ s_ret = 0

\* if (k <= 0) return 0;
SumEarlyReturn ==
  /\ s_pc = "init"
  /\ s_k <= 0
  /\ s_ret' = 0
  /\ s_pc' = "done"
  /\ UNCHANGED <<primes, s_k, s_pq, sum_primes, counter, s_i, s_ovf>>

\* One pass of the initialization loop: pq.push({x, x}).
SumInitPush ==
  /\ s_pc = "init"
  /\ s_k > 0
  /\ s_i < Len(primes)
  /\ s_pq' = SumPqPush(s_pq, <<FromInt(At(primes, s_i)), At(primes, s_i)>>)
  /\ s_i' = s_i + 1
  /\ UNCHANGED <<primes, s_k, sum_primes, counter, s_pc, s_ovf, s_ret>>

\* The end of the initialization loop: sum_primes = 0, counter = 0.
SumInitDone ==
  /\ s_pc = "init"
  /\ s_k > 0
  /\ s_i = Len(primes)
  /\ sum_primes' = 0
  /\ counter' = 0
  /\ s_pc' = "loop"
  /\ UNCHANGED <<primes, s_k, s_pq, s_i, s_ovf, s_ret>>

\* One pass of the while loop.  A product above the largest long long is a
\* signed overflow: it ends the program or leaves anything in next_power.
SumIter ==
  /\ s_pc = "loop"
  /\ Len(s_pq) /= 0
  /\ LET p == PqTop(s_pq)
         power == p[1]
         base == p[2]
         popped == PqPop(s_pq)
         next_power == BigMul(power, base)
     IN /\ sum_primes' = SumAdd(sum_primes, power)
        /\ counter' = counter + 1
        /\ IF counter + 1 = s_k
           THEN /\ s_ret' = SumAdd(sum_primes, power)
                /\ s_pc' = "done"
                /\ s_pq' = popped
                /\ UNCHANGED s_ovf
           ELSE /\ UNCHANGED s_ret
                /\ IF BigLess(LLongMax, next_power)
                   THEN /\ s_ovf' = TRUE
                        /\ \/ s_pc' = "crashed" /\ s_pq' = popped
                           \/ /\ UNCHANGED s_pc
                              /\ \E g \in GarbagePowers :
                                   s_pq' = IF SumKeeps(g)
                                           THEN SumPqPush(popped, <<g, base>>)
                                           ELSE popped
                   ELSE /\ UNCHANGED <<s_pc, s_ovf>>
                        /\ s_pq' = IF SumKeeps(next_power)
                                   THEN SumPqPush(popped, <<next_power, base>>)
                                   ELSE popped
  /\ UNCHANGED <<primes, s_k, s_i>>

\* The while loop ends with the heap empty: return sum_primes.
SumReturnEmpty ==
  /\ s_pc = "loop"
  /\ Len(s_pq) = 0
  /\ s_ret' = sum_primes
  /\ s_pc' = "done"
  /\ UNCHANGED <<primes, s_k, s_pq, sum_primes, counter, s_i, s_ovf>>

SumNext ==
  \/ SumEarlyReturn /\ UNCHANGED <<oldVars, flatVars, sortVars, dynVars, viewVars, urlVars>>
  \/ SumInitPush /\ UNCHANGED <<oldVars, flatVars, sortVars, dynVars, viewVars, urlVars>>
  \/ SumInitDone /\ UNCHANGED <<oldVars, flatVars, sortVars, dynVars, viewVars, urlVars>>
  \/ SumIter /\ UNCHANGED <<oldVars, flatVars, sortVars, dynVars, viewVars, urlVars>>
  \/ SumReturnEmpty /\ UNCHANGED <<oldVars, flatVars, sortVars, dynVars, viewVars, urlVars>>

SpecSumFirstKInit == OldIdle /\ FlatIdle /\ SumInit /\ HsIdle /\ DynIdle /\ ViewIdle /\ UrlIdle

SpecSumFirstK == SpecSumFirstKInit /\ [][SumNext]_vars

\* p^e, as a number.
RECURSIVE BigPow(_, _)
BigPow(p, e) == IF e = 1 THEN FromInt(p) ELSE BigMul(BigPow(p, e - 1), p)

\* The sum modulo MOD of the k smallest numbers of the set S.
RECURSIVE SumSmallest(_, _)
SumSmallest(S, k) ==
  IF k <= 0 THEN 0
  ELSE LET least == CHOOSE x \in S : \A y \in S : ~BigLess(y, x)
       IN (BigMod(least) + SumSmallest(S \ {least}, k - 1)) % MOD

\* The k smallest positive powers of the primes are among p^1 .. p^k.
PrimePowers(q, k) == {BigPow(q[i], e) : i \in DOMAIN q, e \in 1..k}

\* C22: for a non-empty list of distinct primes and k >= 0: no product
\* power * base leaves the range of long long, the heap holds exactly one
\* entry per prime at the head of every pass of the loop, exactly k powers
\* have been summed at the return, and the value returned is the sum
\* modulo 10^9+7 of the k smallest positive powers of the primes (0 for
\* k <= 0).
C22_SumFirstK ==
  /\ ~s_ovf
  /\ s_pc /= "crashed"
  /\ s_pc = "loop" => Len(s_pq) = Len(primes)
  /\ (s_pc = "done" /\ s_k >= 1) => counter = s_k
  /\ s_pc = "done" => s_ret = SumSmallest(PrimePowers(primes, s_k), s_k)

(***************************************************************************)
(* Heap with sort(), the heap_sort version (src/unnamed/part_001).         *)
(***************************************************************************)
\* Mutant of HsMinheapify: the heap boundary n is ignored.
RECURSIVE HsMinheapifyUnbounded(_, _, _)
HsMinheapifyUnbounded(a, i, n) ==
  LET left == 2 * i + 1
      right == 2 * i + 2
      s1 == IF left < Len(a) /\ At(a, left) < At(a, i) THEN left ELSE i
      smallest == IF right < Len(a) /\ At(a, right) < At(a, s1) THEN right ELSE s1
  IN IF smallest = i THEN a
     ELSE HsMinheapifyUnbounded(Swap(a, i, smallest), smallest, n)

\* Heap::minheapify(i, n)
RECURSIVE HsMinheapify(_, _, _)
HsMinheapify(a, i, n) ==
  LET left == 2 * i + 1
      right == 2 * i + 2
      s1 == IF left < n /\ At(a, left) < At(a, i) THEN left ELSE i
      smallest == IF right < n /\ At(a, right) < At(a, s1) THEN right ELSE s1
  IN IF smallest = i THEN a
     ELSE HsMinheapify(Swap(a, i, smallest), smallest, n)

\* The loop of the constructor, from index i down to 0.
RECURSIVE HsBuildLoop(_, _)
HsBuildLoop(a, i) ==
  IF i < 0 THEN a ELSE HsBuildLoop(HsMinheapify(a, i, Len(a)), i - 1)

\* Heap::Heap
HsCtor(a) == HsBuildLoop(a, CDiv(Len(a), 2) - 1)

\* Heap::top
HsTop(a) == IF Len(a) = 0 THEN -1 ELSE At(a, 0)

\* The loop of push, the new element at index i.
RECURSIVE HsBubbleUp(_, _)
HsBubbleUp(a, i) ==
  IF i /= 0 /\ At(a, CDiv(i - 1, 2)) > At(a, i)
  THEN HsBubbleUp(Swap(a, i, CDiv(i - 1, 2)), CDiv(i - 1, 2))
  ELSE a

\* Heap::push
HsPush(a, x) == HsBubbleUp(Append(a, x), Len(a))

\* Heap::pop: arr_ after the call.
HsPop(a) ==
  IF Len(a) = 0 THEN a
  ELSE LET moved == PopBack([a EXCEPT ![1] = a[Len(a)]])
       IN IF Len(moved) /= 0 THEN HsMinheapify(moved, 0, Len(moved)) ELSE moved

\* The loop of sort, from index i down to 1.
RECURSIVE HsSortLoop(_, _)
HsSortLoop(a, i) ==
  IF i < 1 THEN a
  ELSE HsSortLoop(HsMinheapify(Swap(a, i, 0), 0, i), i - 1)

\* Heap::sort
HsSort(a) == HsSortLoop(a, Len(a) - 1)

HsInit ==
  /\ \E a \in SeqsUpTo(Elems, MaxSortInit) :
       /\ hs_arr = HsCtor(a)
       /\ hs_prev = a
  /\ hs_op = "ctor"
  /\ hs_sorts = 0

HsPushCall(x) ==
  /\ Len(hs_arr) < MaxSortSize
  /\ hs_arr' = HsPush(hs_arr, x)
  /\ hs_prev' = hs_arr
  /\ hs_op' = "push"
  /\ UNCHANGED hs_sorts

HsPopCall ==
  /\ hs_arr' = HsPop(hs_arr)
  /\ hs_prev' = hs_arr
  /\ hs_op' = "pop"
  /\ UNCHANGED hs_sorts

HsSortCall ==
  /\ hs_sorts < MaxSorts
  /\ hs_arr' = HsSort(hs_arr)
  /\ hs_prev' = hs_arr
  /\ hs_op' = "sort"
  /\ hs_sorts' = hs_sorts + 1

HsNext ==
  \/ \E x \in Elems : HsPushCall(x) /\ UNCHANGED <<oldVars, flatVars, primeVars, dynVars, viewVars, urlVars>>
  \/ HsPopCall /\ UNCHANGED <<oldVars, flatVars, primeVars, dynVars, viewVars, urlVars>>
  \/ HsSortCall /\ UNCHANGED <<oldVars, flatVars, primeVars, dynVars, viewVars, urlVars>>

SpecSortHeapInit == OldIdle /\ FlatIdle /\ SumIdle /\ HsInit /\ DynIdle /\ ViewIdle /\ UrlIdle

SpecSortHeap == SpecSortHeapInit /\ [][HsNext]_vars

\* C23: sort(), called after the construction and pushes and pops only,
\* leaves arr_ sorted from the largest to the smallest element, with the
\* same elements as before and the same size.
C23_SortDescending ==
  (hs_op = "sort" /\ hs_sorts = 1) =>
     /\ \A i \in 1..(Len(hs_arr) - 1) : hs_arr[i] >= hs_arr[i + 1]
     /\ SameBag(hs_arr, hs_prev)
     /\ Len(hs_arr) = Len(hs_prev)

\* The first sort of a heap of four elements, three of them different, that
\* was not in descending order.
C23_Witness ==
  /\ hs_op = "sort"
  /\ hs_sorts = 1
  /\ Len(hs_arr) = 4
  /\ Cardinality(Range(hs_arr)) >= 3
  /\ hs_arr /= hs_prev

\* C27: in every state reached by the construction and any calls of push,
\* pop and sort, arr_[(i-1)/2] <= arr_[i] for every index i >= 1, and top()
\* is the smallest element stored (-1 on the empty heap).
C27_MinHeapKept ==
  /\ \A i \in 1..(Len(hs_arr) - 1) : At(hs_arr, (i - 1) \div 2) <= At(hs_arr, i)
  /\ Len(hs_arr) = 0 => HsTop(hs_arr) = -1
  /\ Len(hs_arr) > 0 => \A i \in DOMAIN hs_arr : HsTop(hs_arr) <= hs_arr[i]

(***************************************************************************)
(* DynamicArray, the extended version                                      *)
(* (src/dynamic_arrays/dynamic_arrays2.cc; append, get, set, size,         *)
(* pop_back and resize are the same in dynamic_arrays1.cc).  An array is a *)
(* record [cap, arr, size]; arr has cap cells, a cell never written holds  *)
(* Uninit.                                                                 *)
(***************************************************************************)
\* DynamicArray(int size=10)
DefaultCap == 10

\* The capacity above which pop_back and pop may shrink the block.
ShrinkAbove == 10

\* The content of a cell of new int[n] that was never written.
Uninit == 0

\* The values stored.
DynValues == {1, 2}

\* DynamicArray::resize
DynResize(d, newCap) ==
  [cap |-> newCap,
   arr |-> [i \in 1..newCap |-> IF i <= d.size THEN d.arr[i] ELSE Uninit],
   size |-> d.size]

\* DynamicArray::DynamicArray
DynCtor(n) == [cap |-> n, arr |-> [i \in 1..n |-> Uninit], size |-> 0]

\* DynamicArray::append
DynAppend(d, x) ==
  LET put == [d EXCEPT !.arr[d.size + 1] = x, !.size = d.size + 1]
  IN IF put.size = put.cap THEN DynResize(put, put.cap * 2) ELSE put

\* cap_>10 && (static_cast<double>(size_)/cap_)<0.25
DynShrinks(d) == d.cap > ShrinkAbove /\ 4 * d.size < d.cap

\* DynamicArray::pop_back
DynPopBack(d) ==
  IF d.size = 0 THEN d
  ELSE LET less == [d EXCEPT !.size = d.size - 1]
       IN IF DynShrinks(less) THEN DynResize(less, CDiv(less.cap, 2)) ELSE less

\* The loop of pop: arr_[i] = arr_[i+1] for i from index to size_-2.
RECURSIVE DynShiftLeft(_, _, _)
DynShiftLeft(arr, i, n) ==
  IF i < n - 1
  THEN DynShiftLeft([arr EXCEPT ![i + 1] = arr[i + 2]], i + 1, n)
  ELSE arr

\* DynamicArray::pop with an index in range: the array after the call.
DynPop(d, index) ==
  LET less == [d EXCEPT !.arr = DynShiftLeft(d.arr, index, d.size),
                        !.size = d.size - 1]
  IN IF DynShrinks(less) THEN DynResize(less, CDiv(less.cap, 2)) ELSE less

\* Mutant of DynShiftRight: the loop stops one cell early.
RECURSIVE DynShiftRightShort(_, _, _)
DynShiftRightShort(arr, i, index) ==
  IF i > index + 1
  THEN DynShiftRightShort([arr EXCEPT ![i + 1] = arr[i]], i - 1, index)
  ELSE arr

\* The loop of insert: arr_[i] = arr_[i-1] for i from size_ down to index+1.
RECURSIVE DynShiftRight(_, _, _)
DynShiftRight(arr, i, index) ==
  IF i > index
  THEN DynShiftRight([arr EXCEPT ![i + 1] = arr[i]], i - 1, index)
  ELSE arr

\* DynamicArray::insert with an index in range.
DynInsert(d, index, x) ==
  LET room == IF d.size + 1 = d.cap THEN DynResize(d, d.cap * 2) ELSE d
  IN [room EXCEPT !.arr = [DynShiftRight(room.arr, room.size, index)
                             EXCEPT ![index + 1] = x],
                  !.size = room.size + 1]

\* The loop of remove: the first index holding x, or -1.
RECURSIVE DynFind(_, _, _)
DynFind(d, x, i) ==
  IF i >= d.size THEN -1
  ELSE IF At(d.arr, i) = x THEN i
  ELSE DynFind(d, x, i + 1)

\* DynamicArray::remove: the array after the call.
DynRemove(d, x) ==
  IF DynFind(d, x, 0) = -1 THEN d ELSE DynPop(d, DynFind(d, x, 0))

\* DynamicArray::get
DynGet(d, i) == IF i < 0 \/ i >= d.size THEN "out_of_range" ELSE At(d.arr, i)

\* The object as a record.
DynThis == [cap |-> cap_, arr |-> d_arr, size |-> size_]

\* The object becomes d.
DynBecomes(d) ==
  /\ cap_' = d.cap
  /\ d_arr' = d.arr
  /\ size_' = d.size
  /\ d_prevCap' = cap_

DynInit ==
  /\ cap_ = DefaultCap
  /\ d_arr = DynCtor(DefaultCap).arr
  /\ size_ = 0
  /\ d_abs = <<>>
  /\ d_retOk = TRUE
  /\ d_prevCap = DefaultCap
  /\ d_limit = MaxDynSize

\* An object constructed with a capacity chosen by the caller.
DynInitAnyCap ==
  /\ cap_ \in 1..MaxCap
  /\ d_arr = DynCtor(cap_).arr
  /\ size_ = 0
  /\ d_abs = <<>>
  /\ d_retOk = TRUE
  /\ d_prevCap = cap_
  /\ d_limit = MaxCapSize

\* The sequence s without its element at index i.
AbsPop(s, i) == SubSeq(s, 1, i) \o SubSeq(s, i + 2, Len(s))

\* The sequence s with x put before its element at index i.
AbsInsert(s, i, x) == SubSeq(s, 1, i) \o <<x>> \o SubSeq(s, i + 1, Len(s))

\* The first index of x in s, or -1.
AbsIndex(s, x) ==
  IF x \in Range(s)
  THEN (CHOOSE i \in DOMAIN s : s[i] = x /\ \A j \in 1..(i - 1) : s[j] /= x) - 1
  ELSE -1

DynAppendCall(x) ==
  /\ size_ < d_limit
  /\ DynBecomes(DynAppend(DynThis, x))
  /\ d_abs' = Append(d_abs, x)
  /\ d_retOk' = TRUE
  /\ UNCHANGED d_limit

DynPopBackCall ==
  /\ DynBecomes(DynPopBack(DynThis))
  /\ d_abs' = PopBack(d_abs)
  /\ d_retOk' = TRUE
  /\ UNCHANGED d_limit

\* set(i, x): throws for an index out of range, and so does the sequence.
DynSetCall(i, x) ==
  /\ IF i < 0 \/ i >= size_
     THEN /\ DynBecomes(DynThis)
          /\ d_retOk' = (i < 0 \/ i >= Len(d_abs))
          /\ UNCHANGED d_abs
     ELSE /\ DynBecomes([DynThis EXCEPT !.arr[i + 1] = x])
          /\ d_retOk' = (i < Len(d_abs))
          /\ d_abs' = [d_abs EXCEPT ![i + 1] = x]
  /\ UNCHANGED d_limit

\* pop(index): throws for an index out of range; returns val otherwise,
\* the sequence giving its element at index.
DynPopCall(index) ==
  /\ IF index < 0 \/ index >= size_
     THEN /\ DynBecomes(DynThis)
          /\ d_retOk' = (index < 0 \/ index >= Len(d_abs))
          /\ UNCHANGED d_abs
     ELSE /\ DynBecomes(DynPop(DynThis, index))
          /\ d_retOk' = (index < Len(d_abs) /\ At(d_arr, index) = At(d_abs, index))
          /\ d_abs' = AbsPop(d_abs, index)
  /\ UNCHANGED d_limit

\* insert(index, x): throws for an index out of range.
DynInsertCall(index, x) ==
  /\ size_ < d_limit \/ index < 0 \/ index > size_
  /\ IF index < 0 \/ index > size_
     THEN /\ DynBecomes(DynThis)
          /\ d_retOk' = (index < 0 \/ index > Len(d_abs))
          /\ UNCHANGED d_abs
     ELSE /\ DynBecomes(DynInsert(DynThis, index, x))
          /\ d_retOk' = (index <= Len(d_abs))
          /\ d_abs' = AbsInsert(d_abs, index, x)
  /\ UNCHANGED d_limit

\* remove(x): returns index, the sequence giving the first index of x or -1.
DynRemoveCall(x) ==
  /\ DynBecomes(DynRemove(DynThis, x))
  /\ d_retOk' = (DynFind(DynThis, x, 0) = AbsIndex(d_abs, x))
  /\ d_abs' = IF AbsIndex(d_abs, x) = -1 THEN d_abs
              ELSE AbsPop(d_abs, AbsIndex(d_abs, x))
  /\ UNCHANGED d_limit

DynNext ==
  \/ \E x \in DynValues : DynAppendCall(x) /\ UNCHANGED <<oldVars, flatVars, primeVars, sortVars, viewVars, urlVars>>
  \/ DynPopBackCall /\ UNCHANGED <<oldVars, flatVars, primeVars, sortVars, viewVars, urlVars>>
  \/ \E i \in -1..size_, x \in DynValues :
       DynSetCall(i, x) /\ UNCHANGED <<oldVars, flatVars, primeVars, sortVars, viewVars, urlVars>>
  \/ \E index \in -1..size_ :
       DynPopCall(index) /\ UNCHANGED <<oldVars, flatVars, primeVars, sortVars, viewVars, urlVars>>
  \/ \E index \in -1..(size_ + 1), x \in DynValues :
       DynInsertCall(index, x) /\ UNCHANGED <<oldVars, flatVars, primeVars, sortVars, viewVars, urlVars>>
  \/ \E x \in DynValues :
       DynRemoveCall(x) /\ UNCHANGED <<oldVars, flatVars, primeVars, sortVars, viewVars, urlVars>>

SpecDynamicArrayInit == OldIdle /\ FlatIdle /\ SumIdle /\ HsIdle /\ DynInit /\ ViewIdle /\ UrlIdle

SpecDynamicArray == SpecDynamicArrayInit /\ [][DynNext]_vars

SpecDynamicArrayAnyCapInit == OldIdle /\ FlatIdle /\ SumIdle /\ HsIdle /\ DynInitAnyCap /\ ViewIdle /\ UrlIdle

SpecDynamicArrayAnyCap == SpecDynamicArrayAnyCapInit /\ [][DynNext]_vars

\* C24: after any calls of append, pop_back, set, insert, pop and remove on
\* a default-constructed array, size() is the length of the sequence the
\* array stands for, get(i) is its element i for every 0 <= i < size(), and
\* the last call returned what the sequence gives: pop(i) the element
\* removed, remove(x) the first index of x or -1.
C24_RefinesSequence ==
  /\ size_ = Len(d_abs)
  /\ \A i \in 0..(size_ - 1) : DynGet(DynThis, i) = At(d_abs, i)
  /\ d_retOk

\* The capacity was doubled to 20 and has just been halved to 10 again, the
\* array holding four elements, not all the same.
C24_Witness ==
  /\ cap_ = DefaultCap
  /\ d_prevCap = 2 * DefaultCap
  /\ size_ = 4
  /\ Range(d_abs) = DynValues

\* C28: for an array constructed with any capacity >= 1, size_ < cap_ after
\* every call, and a call that shrinks the block started from a capacity
\* above 10 with size_/cap_ < 0.25 and leaves a capacity of at least 10.
C28_MinCapacity ==
  /\ size_ < cap_
  /\ cap_ < d_prevCap =>
       /\ d_prevCap > ShrinkAbove
       /\ 4 * size_ < d_prevCap
       /\ cap_ >= ShrinkAbove

\* size_ < cap_ after every call, whatever the capacity chosen.
DynSizeBelowCap == size_ < cap_ /\ Len(d_arr) = cap_

(***************************************************************************)
(* ViewerCounter (src/unnamed/part_018).  category is a function from the  *)
(* types that have a queue to their queues.                                *)
(***************************************************************************)
ViewTypes == 1..MaxTypes

ViewTimes == 0..MaxTime

\* category[type]: the queue of the type, created empty when missing.
ViewQueue(cat, type) == IF type \in DOMAIN cat THEN cat[type] ELSE <<>>

\* category with the queue q for type.
ViewStore(cat, type, q) ==
  [t \in DOMAIN cat \cup {type} |-> IF t = type THEN q ELSE cat[t]]

\* while (!q.empty() && q.front() < (time - window_)) q.pop();
RECURSIVE ViewExpire(_, _, _)
ViewExpire(q, time, window) ==
  IF Len(q) /= 0 /\ Head(q) < time - window
  THEN ViewExpire(Tail(q), time, window)
  ELSE q

\* The counting loop over the copy temp.
RECURSIVE ViewCount(_, _, _)
ViewCount(temp, time, window) ==
  IF Len(temp) = 0 THEN 0
  ELSE (IF Head(temp) >= time - window /\ Head(temp) <= time THEN 1 ELSE 0)
       + ViewCount(Tail(temp), time, window)

ViewInit ==
  /\ window_ \in 1..MaxWindow
  /\ category = <<>>
  /\ v_joined = [t \in ViewTypes |-> <<>>]
  /\ v_op = "ctor"
  /\ v_time = 0
  /\ v_type = 0
  /\ v_ret = 0

\* ViewerCounter::join
ViewJoin(timestamp, type) ==
  /\ SumSeq([t \in ViewTypes |-> Len(v_joined[t])]) < MaxJoins
  /\ category' = ViewStore(category, type, Append(ViewQueue(category, type), timestamp))
  /\ v_joined' = [v_joined EXCEPT ![type] = Append(@, timestamp)]
  /\ v_op' = "join"
  /\ v_time' = timestamp
  /\ v_type' = type
  /\ UNCHANGED <<window_, v_ret>>

\* ViewerCounter::get_viewers
ViewGetViewers(time, type) ==
  /\ category' = ViewStore(category, type,
                           ViewExpire(ViewQueue(category, type), time, window_))
  /\ v_ret' = ViewCount(ViewExpire(ViewQueue(category, type), time, window_),
                        time, window_)
  /\ v_op' = "get_viewers"
  /\ v_time' = time
  /\ v_type' = type
  /\ UNCHANGED <<window_, v_joined>>

ViewNext ==
  \/ \E timestamp \in ViewTimes, type \in ViewTypes :
       ViewJoin(timestamp, type) /\ UNCHANGED <<oldVars, flatVars, primeVars, sortVars, dynVars, urlVars>>
  \/ \E time \in ViewTimes, type \in ViewTypes :
       ViewGetViewers(time, type) /\ UNCHANGED <<oldVars, flatVars, primeVars, sortVars, dynVars, urlVars>>

SpecViewerCounterInit == OldIdle /\ FlatIdle /\ SumIdle /\ HsIdle /\ DynIdle /\ ViewInit /\ UrlIdle

SpecViewerCounter == SpecViewerCounterInit /\ [][ViewNext]_vars

\* C25: get_viewers(t, v) returns the number of earlier join(t', v) calls
\* with t - window <= t' <= t, whatever the order of the query times.
C25_WindowCount ==
  v_op = "get_viewers" =>
     v_ret = Cardinality({i \in DOMAIN v_joined[v_type] :
                            /\ v_time - window_ <= v_joined[v_type][i]
                            /\ v_joined[v_type][i] <= v_time})

(***************************************************************************)
(* current_url_forward (src/stack_and_queues/current_url_with_forward.cc). *)
(* A stack is a sequence with its top last.  The number of a back or       *)
(* forward action is a string of decimal digits, here the sequence of the  *)
(* digits.  b_pc is "loop" in the for loop and "done" after the return.    *)
(***************************************************************************)
Urls == 1..MaxUrl

\* The decimal digits of n >= 1, as the caller writes them.
RECURSIVE DecimalString(_)
DecimalString(n) ==
  IF n < 10 THEN <<n>> ELSE Append(DecimalString(n \div 10), n % 10)

\* stoi on a string of digits.
RECURSIVE stoi(_)
stoi(str) == IF Len(str) = 0 THEN 0 ELSE 10 * stoi(PopBack(str)) + str[Len(str)]

\* while(count--) { to.push(from.top()); from.pop(); }: the two stacks after
\* count pages have moved from the first to the second.
RECURSIVE MovePages(_, _, _)
MovePages(from, to, count) ==
  IF count = 0 THEN <<from, to>>
  ELSE MovePages(PopBack(from), Append(to, from[Len(from)]), count - 1)

\* Mutant of BackCount: every page may be moved, none is kept.
BackCountKeepsNone(val, s) == IF val < Len(s) THEN val ELSE Len(s)

\* int count = (static_cast<size_t>(val)<st.size()) ? val : st.size()-1;
BackCount(val, s) == IF val < Len(s) THEN val ELSE Len(s) - 1

\* int count = (static_cast<size_t>(val)<st2.size()) ? val : st2.size();
ForwardCount(val, s2) == IF val < Len(s2) THEN val ELSE Len(s2)

\* The smaller and the larger of two numbers.
Max2(a, b) == IF a > b THEN a ELSE b

UrlInit ==
  /\ st = <<>>
  /\ st2 = <<>>
  /\ b_pages = <<>>
  /\ b_cursor = 0
  /\ b_n = 0
  /\ b_last = "none"
  /\ b_pc = "loop"
  /\ b_ret = 0

\* One pass of the for loop on the action ("go", url).
UrlGo(url) ==
  /\ b_pc = "loop"
  /\ b_n < MaxActions
  /\ st' = Append(st, url)
  /\ st2' = <<>>
  /\ b_pages' = IF b_n = 0 THEN <<url>>
                ELSE Append(SubSeq(b_pages, 1, b_cursor + 1), url)
  /\ b_cursor' = IF b_n = 0 THEN 0 ELSE b_cursor + 1
  /\ b_n' = b_n + 1
  /\ b_last' = "go"
  /\ UNCHANGED <<b_pc, b_ret>>

\* One pass of the for loop on the action ("back", n written in decimal).
UrlBack(n) ==
  /\ b_pc = "loop"
  /\ b_n >= 1
  /\ b_n < MaxActions
  /\ LET val == stoi(DecimalString(n))
         moved == MovePages(st, st2, BackCount(val, st))
     IN /\ st' = moved[1]
        /\ st2' = moved[2]
  /\ b_cursor' = Max2(0, b_cursor - n)
  /\ b_n' = b_n + 1
  /\ b_last' = "back"
  /\ UNCHANGED <<b_pages, b_pc, b_ret>>

\* One pass of the for loop on the action ("forward", n written in decimal).
UrlForward(n) ==
  /\ b_pc = "loop"
  /\ b_n >= 1
  /\ b_n < MaxActions
  /\ LET val == stoi(DecimalString(n))
         moved == MovePages(st2, st, ForwardCount(val, st2))
     IN /\ st2' = moved[1]
        /\ st' = moved[2]
  /\ b_cursor' = Min2(Len(b_pages) - 1, b_cursor + n)
  /\ b_n' = b_n + 1
  /\ b_last' = "forward"
  /\ UNCHANGED <<b_pages, b_pc, b_ret>>

\* The end of the for loop: return st.top().
UrlReturn ==
  /\ b_pc = "loop"
  /\ b_n >= 1
  /\ b_ret' = st[Len(st)]
  /\ b_pc' = "done"
  /\ UNCHANGED <<st, st2, b_pages, b_cursor, b_n, b_last>>

UrlNext ==
  \/ \E url \in Urls :
       UrlGo(url) /\ UNCHANGED <<oldVars, flatVars, primeVars, sortVars, dynVars, viewVars>>
  \/ \E n \in 1..MaxSteps :
       UrlBack(n) /\ UNCHANGED <<oldVars, flatVars, primeVars, sortVars, dynVars, viewVars>>
  \/ \E n \in 1..MaxSteps :
       UrlForward(n) /\ UNCHANGED <<oldVars, flatVars, primeVars, sortVars, dynVars, viewVars>>
  \/ UrlReturn /\ UNCHANGED <<oldVars, flatVars, primeVars, sortVars, dynVars, viewVars>>

SpecCurrentUrlInit == OldIdle /\ FlatIdle /\ SumIdle /\ HsIdle /\ DynIdle /\ ViewIdle /\ UrlInit

SpecCurrentUrl == SpecCurrentUrlInit /\ [][UrlNext]_vars

\* C26: for action lists that start with "go" and have back/forward numbers
\* >= 1, after every action the top of the history stack is the page under
\* the cursor of the reference browser (so the URL returned is the
\* reference's current page), the history stack is not empty, and after a
\* "go" the forward stack is empty.
C26_MatchesReference ==
  /\ b_n >= 1 =>
       /\ Len(st) >= 1
       /\ st[Len(st)] = At(b_pages, b_cursor)
  /\ b_pc = "done" => b_ret = At(b_pages, b_cursor)
  /\ b_last = "go" => st2 = <<>>

\* The URL returned after a back beyond the first page, a forward and a
\* "go" that dropped a page of the forward stack.
C26_Witness ==
  /\ b_pc = "done"
  /\ b_last = "forward"
  /\ b_n = MaxActions
  /\ Len(b_pages) = 2
  /\ b_cursor = 1
  /\ st2 = <<>>

(***************************************************************************)
(* SpecTopSongsUpdAnyCount: the updatable TopSongs given counts of any     *)
(* sign, zero included (register_plays takes an int and tests nothing).    *)
(***************************************************************************)
AnyCounts == (0 - MaxPlays)..MaxPlays

UpdAnyCountNext ==
  \/ \E title \in Titles, count \in AnyCounts :
       UpdRegisterPlays(title, count) /\ UNCHANGED <<heapVars, sizeVars, fixedVars, popVars, mergeVars, restVars>>
  \/ UpdTopKCall /\ UNCHANGED <<heapVars, sizeVars, fixedVars, popVars, mergeVars, restVars>>

SpecTopSongsUpdAnyCountInit == HeapIdle /\ SizeIdle /\ FixedIdle /\ UpdInit /\ PopIdle /\ MergeIdle /\ RestIdle

SpecTopSongsUpdAnyCount == SpecTopSongsUpdAnyCountInit /\ [][UpdAnyCountNext]_vars

\* C29: whatever the counts registered (zero and negative ones included),
\* the heap holds at most one fresh entry per title in every reachable state,
\* and top_k() never returns the same title twice.
C29_OneFreshEntryPerTitle ==
  /\ \A title \in DOMAIN umap : Count(u_pq, <<umap[title], title>>) <= 1
  /\ u_op = "top_k" => \A i, j \in DOMAIN u_ret : u_ret[i] = u_ret[j] => i = j

(***************************************************************************)
(* SpecHeapAnyPriority: Heap constructed with any priority string (the     *)
(* constructor stores the string and tests nothing).                       *)
(***************************************************************************)
Priorities == {"<", ">", "<=", "min"}

HeapInitAnyPriority ==
  /\ priority_ \in Priorities
  /\ \E arr \in SeqsUpTo(Elems, MaxInit) :
       /\ h_prev = arr
       /\ arr_ = HeapCtor(priority_, arr)
  /\ h_op = "ctor"
  /\ h_ret = 0

SpecHeapAnyPriorityInit == HeapInitAnyPriority /\ SizeIdle /\ FixedIdle /\ UpdIdle /\ PopIdle /\ MergeIdle /\ RestIdle

SpecHeapAnyPriority == SpecHeapAnyPriorityInit /\ [][HeapNext]_vars

\* C30: whatever the priority string, the array is a min-heap or a max-heap
\* in every state reached from construction by push and pop, and pop() on a
\* non-empty heap returns the extreme element of that direction.
C30_OneDirection ==
  \/ /\ \A i \in 1..(Len(arr_) - 1) : At(arr_, (i - 1) \div 2) <= At(arr_, i)
     /\ (h_op = "pop" /\ Len(h_prev) > 0) => \A v \in Range(h_prev) : h_ret <= v
  \/ /\ \A i \in 1..(Len(arr_) - 1) : At(arr_, (i - 1) \div 2) >= At(arr_, i)
     /\ (h_op = "pop" /\ Len(h_prev) > 0) => \A v \in Range(h_prev) : h_ret >= v

====
